---------------------------- MODULE Spec2Model ----------------------------
(***************************************************************************)
(* A model of twylie/merge_fastq: the identity map (RenameSamples), the    *)
(* metadata normalizer (Samplemap), the consolidation planner (MergeFastq) *)
(* and the read-count reconciler (ReadCountsSource).                       *)
(*                                                                         *)
(* A pandas DataFrame is a sequence of records (one record per row, the    *)
(* fields are the columns).  A raised exception is recorded in err and     *)
(* moves pc to "failed"; nothing runs after it.                            *)
(***************************************************************************)
EXTENDS Integers, Sequences, FiniteSets, TLC

VARIABLES
    pc,                \* the method the program is about to run
    err,               \* message of the exception raised, "" when none
    rename_columns,    \* the column labels of the --rename file
    rename_df,         \* RenameSamples.df: the rows of the --rename file
    df_smaps,          \* Samplemap.df_smaps: the concatenated Samplemap rows
    fs,                \* on-disk state of every source FASTQ, by fastq_path
    single_copy_ids,   \* MergeFastq.single_copy_ids
    merge_copy_ids,    \* MergeFastq.merge_copy_ids
    copy_todo,         \* samples the loop of __setup_copy_cmds has not visited
    merge_todo,        \* samples the loop of __setup_merge_cmds has not visited
    dest_fq_index,     \* MergeFastq.dest_fq_index
    copy_cmds,         \* MergeFastq.copy_cmds, in insertion order
    merge_cmds,        \* MergeFastq.merge_cmds, in insertion order
    samplemap_merged,  \* MergeFastq.samplemap_merged
    counts_files,      \* the executor's <merged_fastq_path>.counts side files
    gtac_counts_file,  \* the rows of the --gtac-counts file
    merged_samplemap_file, \* the rows of the --merged-samplemap file
    df_gtac_counts,    \* ReadCountsSource.df_gtac_counts (the --gtac-counts file)
    df_merged,         \* ReadCountsSource.df_merged
    df_src_seqcov,     \* ReadCountsSource.df_src_seqcov
    df_comp,           \* ReadCountsSource.df_comp
    told,              \* what tell_comp_differences printed
    smap_files,        \* the Samplemap.csv files of args.samplemap, in order
    prior_plans,       \* the plans an earlier run of the planner built
    all_jobs,          \* MergeFastq.all_jobs
    launched,          \* the jobs handed to the executor, in order
    dirs               \* the output directories made on disk

vars == <<pc, err, rename_columns, rename_df, df_smaps, fs, single_copy_ids, merge_copy_ids,
          copy_todo, merge_todo, dest_fq_index, copy_cmds, merge_cmds,
          samplemap_merged, counts_files, gtac_counts_file,
          merged_samplemap_file, df_gtac_counts, df_merged, df_src_seqcov,
          df_comp, told, smap_files, prior_plans, all_jobs, launched, dirs>>

renameVars == <<rename_columns, rename_df>>
planVars   == <<single_copy_ids, merge_copy_ids, copy_todo, merge_todo,
                dest_fq_index, copy_cmds, merge_cmds>>
jobVars    == <<all_jobs, launched, dirs>>
reconVars  == <<counts_files, gtac_counts_file, merged_samplemap_file,
                df_gtac_counts, df_merged, df_src_seqcov, df_comp, told>>

(***************************************************************************)
(* Bounds of the model.                                                    *)
(***************************************************************************)
MaxRecords == 4        \* rows of the concatenated Samplemap table
MaxMapRows == 3        \* rows of the --rename file
MaxReads   == 2        \* largest read count a row or a side file carries
MaxGroup   == 3        \* most records of one sample and read end (reconciler)
MaxCalls   == 2        \* calls of prepare_lsf_cmds on one MergeFastq object

SampleOrder == <<"sA", "sB">>        \* original sample names, ascending
SampleNames == {SampleOrder[i] : i \in 1..Len(SampleOrder)}
RevisedOrder == <<"rA", "rB">>       \* revised sample names, ascending
FileStates  == {"gz", "plain"}       \* how the source FASTQ files are found
FlowCells   == <<"FC1", "FC2">>      \* in ascending (string) order
Lanes       == {1, 2}
ReadNumbers == {1, 2}
NaN         == "NaN"                 \* pandas' null (an empty cell reads as NaN)

FlowCellSet == {FlowCells[i] : i \in 1..Len(FlowCells)}

\* position of a flow cell id in the ascending order of the ids
FcRank(fc) == CHOOSE i \in 1..Len(FlowCells) : FlowCells[i] = fc

\* the revised name the --rename file of a normalized table gives a sample
RevisedName(sample_name) ==
    RevisedOrder[CHOOSE i \in 1..Len(SampleOrder) :
                     SampleOrder[i] = sample_name]

\* the revised sample names in names in ascending order, the order in which
\* groupby('revised_sample_name') lists its groups
RECURSIVE SortedNames(_)
SortedNames(names) ==
    IF names = {} THEN <<>>
    ELSE LET Rank(n) == CHOOSE i \in 1..Len(RevisedOrder) : RevisedOrder[i] = n
             least == CHOOSE n \in names : \A m \in names : Rank(n) <= Rank(m)
         IN  <<least>> \o SortedNames(names \ {least})

(***************************************************************************)
(* Generic helpers on sequences (DataFrame rows, python lists).            *)
(***************************************************************************)
Range(s) == {s[i] : i \in 1..Len(s)}

EmptyMap == [x \in {} |-> 0]

\* the rows of s that satisfy Test, in row order (a boolean-mask selection)
Rows(s, Test(_)) == SelectSeq(s, Test)

RECURSIVE SumSeq(_)
SumSeq(s) == IF s = <<>> THEN 0 ELSE Head(s) + SumSeq(Tail(s))

\* python's len(set(column))
NUnique(s) == Cardinality(Range(s))


(***************************************************************************)
(* Paths.  A path is a record; gz says whether it carries the ".gz"        *)
(* suffix, so that python's path[:-3] clears gz.                           *)
(***************************************************************************)
EndTag(read_number) == IF read_number = 1 THEN "R1" ELSE "R2"

\* Samplemap.__parse_samplemap: fastq_path = fastq_dir / fastq.  The file
\* name of a FASTQ carries its library, flow cell, lane and read end.
FastqPath(sample_name, fc, lane, read_number) ==
    [dir |-> "fastq_dir", name |-> sample_name, fc |-> fc, lane |-> lane,
     end |-> EndTag(read_number), gz |-> TRUE]

\* path[:-3]
Stem(p) == [p EXCEPT !.gz = FALSE]

\* outdir / sample_name / '<revised>.<R1|R2>.fastq.gz'
DestFq(sample_name, revised, end) ==
    [dir |-> sample_name, name |-> revised, fc |-> "", lane |-> 0,
     end |-> end, gz |-> TRUE]

\* sample_dir / Path(src).stem
TmpFq(sample_name, src) == [src EXCEPT !.dir = sample_name, !.gz = FALSE]

\* Path(p).is_file(): a "gz" or "badgz" source exists under its .gz name, a
\* "plain" source only under the name without the suffix.
IsFile(p) ==
    LET st == fs[[p EXCEPT !.gz = TRUE]]
    IN  IF p.gz THEN st \in {"gz", "badgz"} ELSE st = "plain"

\* gzip.open(p).read(1) succeeds
ReadsAsGzip(p) == p.gz /\ fs[p] = "gz"

\* one shell command of a plan
Cmd(op, src, dst) == [op |-> op, src |-> src, dst |-> dst]

(***************************************************************************)
(* DataFrame operations used by the planner.                               *)
(***************************************************************************)
\* df.groupby('sample_name').groups
SampleGroups(df) == {df[i].sample_name : i \in 1..Len(df)}

\* dfg.get_group(sample_name)
GetGroup(df, sample_name) ==
    LET Test(r) == r.sample_name = sample_name IN Rows(df, Test)

\* df.groupby('read_number').get_group(n)
GetReadNum(df, n) ==
    LET Test(r) == r.read_number = n IN Rows(df, Test)

\* the (flow_cell_id, lane_number) sort key of a row
SortKey(r) == <<r.flow_cell_id, r.lane_number>>

\* row a sorts before row b or ties with it
KeyLeq(a, b) ==
    \/ FcRank(a.flow_cell_id) < FcRank(b.flow_cell_id)
    \/ a.flow_cell_id = b.flow_cell_id /\ a.lane_number <= b.lane_number

\* insert row r into the sorted sequence s, after the rows that tie with it
RECURSIVE InsertSorted(_, _)
InsertSorted(r, s) ==
    IF s = <<>> THEN <<r>>
    ELSE IF KeyLeq(Head(s), r) THEN <<Head(s)>> \o InsertSorted(r, Tail(s))
    ELSE <<r>> \o s

\* df.sort_values(['flow_cell_id', 'lane_number'])
RECURSIVE SortValues(_)
SortValues(df) ==
    IF df = <<>> THEN <<>>
    ELSE InsertSorted(df[Len(df)], SortValues(SubSeq(df, 1, Len(df) - 1)))

\* list(df[cols]): iterating a DataFrame yields its column labels
ListOfFrame(df, cols) == cols

\* the values of one column, in row order
Col(df, Get(_)) == [i \in 1..Len(df) |-> Get(df[i])]

(***************************************************************************)
(* MergeFastq.__parse_fastq_copy_types                                     *)
(***************************************************************************)
\* CopyType without the test of the flow cell count
CopyType_RecordCountOnly(df_sample_name) ==
    IF Len(df_sample_name) = 2 THEN "copy" ELSE "merge"

\* the copy type of one sample's rows
CopyType(df_sample_name) ==
    LET flow_cell_count ==
            NUnique(Col(df_sample_name, LAMBDA r : r.flow_cell_id))
        fastq_count == Len(df_sample_name)
    IN  IF flow_cell_count = 1 /\ fastq_count = 2 THEN "copy" ELSE "merge"

ParseFastqCopyTypes ==
    /\ pc = "parse_fastq_copy_types"
    /\ LET groups == SampleGroups(df_smaps)
           single == {n \in groups : CopyType(GetGroup(df_smaps, n)) = "copy"}
           merge  == {n \in groups : CopyType(GetGroup(df_smaps, n)) = "merge"}
       IN  IF Cardinality(single) + Cardinality(merge) # Cardinality(groups)
           THEN /\ pc' = "failed"
                /\ err' = "FASTQ copy type counts differ."
                /\ UNCHANGED <<single_copy_ids, merge_copy_ids, copy_todo,
                               merge_todo>>
           ELSE /\ single_copy_ids' = single
                /\ merge_copy_ids' = merge
                /\ copy_todo' = single
                /\ merge_todo' = merge
                /\ pc' = IF single # {} THEN "setup_copy_cmds"
                         ELSE "setup_merge_cmds"
                /\ err' = ""
    /\ UNCHANGED <<df_smaps, fs, smap_files, prior_plans, dest_fq_index, copy_cmds,
                   merge_cmds, samplemap_merged>>
    /\ UNCHANGED renameVars
    /\ UNCHANGED jobVars
    /\ UNCHANGED reconVars

(***************************************************************************)
(* MergeFastq.__setup_copy_cmds: one iteration of the loop over            *)
(* single_copy_ids (a python set: the iteration order is arbitrary).       *)
(***************************************************************************)
\* the file the planner finds for a source: the path itself, the path
\* without ".gz", or nothing
EvalFq(src) ==
    IF IsFile(src) THEN <<src>>
    ELSE IF IsFile(Stem(src)) THEN <<Stem(src)>>
    ELSE <<>>

\* CopyCmdList that never compresses
CopyCmdList_NoCompress(src, dest, is_gzip) ==
    << Cmd("cp", <<IF is_gzip THEN src ELSE Stem(src)>>, dest),
       Cmd("md5sum", <<dest>>, dest),
       Cmd("count", <<dest>>, dest) >>

\* the commands that produce dest from one source
CopyCmdList(src, dest, is_gzip) ==
    IF is_gzip
    THEN << Cmd("cp", <<src>>, dest),
            Cmd("md5sum", <<dest>>, dest),
            Cmd("count", <<dest>>, dest) >>
    ELSE << Cmd("cp", <<Stem(src)>>, Stem(dest)),
            Cmd("gzip", <<Stem(dest)>>, dest),
            Cmd("md5sum", <<dest>>, dest),
            Cmd("count", <<dest>>, dest) >>

\* the outcome of the loop body for sample_name: an error message, or the
\* destination index entry and the two command lists
CopyBody(sample_name) ==
    LET df  == GetGroup(df_smaps, sample_name)
        g1  == GetReadNum(df, 1)
        g2  == GetReadNum(df, 2)
        Fail(msg) == [err |-> msg, dest |-> <<>>, r1 |-> <<>>, r2 |-> <<>>]
        \* the index entry is written before the source files are looked up
        NotFound(msg, d) == [err |-> msg, dest |-> <<d>>, r1 |-> <<>>,
                             r2 |-> <<>>]
    IN  IF Len(df) # 2
        THEN Fail("Copy type should only have 2 associated FASTQ files.")
        ELSE IF g1 = <<>> THEN Fail("KeyError: 1")
        ELSE IF Len(g1) # 1
        THEN Fail("can only convert an array of size 1 to a Python scalar")
        ELSE IF g1[1].index_sequence # g2[1].index_sequence
        THEN Fail("R1 and R2 index sequences do not match.")
        ELSE IF g1[1].flow_cell_id # g2[1].flow_cell_id
        THEN Fail("R1 and R2 flow cell ids do not match.")
        ELSE IF g1[1].lane_number # g2[1].lane_number
        THEN Fail("R1 and R2 lane numbers do not match.")
        ELSE
        LET src_r1_fq  == g1[1].fastq_path
            src_r2_fq  == g2[1].fastq_path
            dest_r1_fq == DestFq(sample_name, g1[1].revised_sample_name, "R1")
            dest_r2_fq == DestFq(sample_name, g2[1].revised_sample_name, "R2")
        IN  IF sample_name \in DOMAIN dest_fq_index
            THEN Fail("Sample name should not be duplicated in FASTQ index.")
            ELSE IF EvalFq(src_r1_fq) = <<>>
            THEN NotFound("FASTQ R1 comp or decomp file not found.",
                          [R1 |-> dest_r1_fq, R2 |-> dest_r2_fq])
            ELSE IF EvalFq(src_r2_fq) = <<>>
            THEN NotFound("FASTQ R2 comp or decomp file not found.",
                          [R1 |-> dest_r1_fq, R2 |-> dest_r2_fq])
            ELSE [err  |-> "",
                  dest |-> <<[R1 |-> dest_r1_fq, R2 |-> dest_r2_fq]>>,
                  r1   |-> CopyCmdList(src_r1_fq, dest_r1_fq,
                                       ReadsAsGzip(EvalFq(src_r1_fq)[1])),
                  r2   |-> CopyCmdList(src_r2_fq, dest_r2_fq,
                                       ReadsAsGzip(EvalFq(src_r2_fq)[1]))]

\* Put with the revised sample name of the destination as the key
Put_KeyedByRevised(d, key, value) ==
    [k \in DOMAIN d \cup {value.R1.name} |->
        IF k = value.R1.name THEN value ELSE d[k]]

\* dict[key] = value
Put(d, key, value) ==
    [k \in DOMAIN d \cup {key} |-> IF k = key THEN value ELSE d[k]]

\* the keys of an insertion-ordered dict of commands
CmdKeys(cmds) == {cmds[i].sample_name : i \in 1..Len(cmds)}

\* cmds[sample_name]
CmdsOf(cmds, sample_name) ==
    cmds[CHOOSE i \in 1..Len(cmds) : cmds[i].sample_name = sample_name]

SetupCopyCmds(sample_name) ==
    /\ pc = "setup_copy_cmds"
    /\ sample_name \in copy_todo
    /\ LET out == CopyBody(sample_name)
       IN  IF out.err # ""
           THEN /\ pc' = "failed"
                /\ err' = out.err
                /\ dest_fq_index' =
                       IF out.dest = <<>> THEN dest_fq_index
                       ELSE Put(dest_fq_index, sample_name, out.dest[1])
                /\ UNCHANGED <<copy_todo, copy_cmds>>
           ELSE /\ dest_fq_index' = Put(dest_fq_index, sample_name,
                                        out.dest[1])
                /\ copy_cmds' = Append(copy_cmds,
                                       [sample_name |-> sample_name,
                                        r1 |-> out.r1, r2 |-> out.r2])
                /\ copy_todo' = copy_todo \ {sample_name}
                /\ pc' = IF copy_todo' # {} THEN "setup_copy_cmds"
                         ELSE IF merge_copy_ids # {} THEN "setup_merge_cmds"
                         ELSE "update_df_cmds"
                /\ err' = ""
    /\ UNCHANGED <<df_smaps, fs, smap_files, prior_plans, single_copy_ids, merge_copy_ids,
                   merge_todo, merge_cmds, samplemap_merged>>
    /\ UNCHANGED renameVars
    /\ UNCHANGED jobVars
    /\ UNCHANGED reconVars

(***************************************************************************)
(* MergeFastq.__setup_merge_cmds: one iteration of the loop over           *)
(* merge_copy_ids.                                                         *)
(***************************************************************************)
\* r1_is_gzip / r2_is_gzip: for every source in order, whether it reads as
\* gzip; <<>> in place of the list when a source is not found
RECURSIVE IsGzipList(_)
IsGzipList(src_fq) ==
    IF src_fq = <<>> THEN [found |-> TRUE, is_gzip |-> <<>>]
    ELSE LET e    == EvalFq(Head(src_fq))
             rest == IsGzipList(Tail(src_fq))
         IN  IF e = <<>> THEN [found |-> FALSE, is_gzip |-> <<>>]
             ELSE [found   |-> rest.found,
                   is_gzip |-> <<ReadsAsGzip(e[1])>> \o rest.is_gzip]

\* the copy-and-compress commands, one pair per source that is not gzip
RECURSIVE CompressCmds(_, _, _)
CompressCmds(sample_name, src_fq, is_gzip) ==
    IF src_fq = <<>> THEN <<>>
    ELSE (IF Head(is_gzip) THEN <<>>
          ELSE << Cmd("cp", <<Stem(Head(src_fq))>>,
                      TmpFq(sample_name, Head(src_fq))),
                  Cmd("gzip", <<TmpFq(sample_name, Head(src_fq))>>,
                      [TmpFq(sample_name, Head(src_fq)) EXCEPT !.gz = TRUE]) >>)
         \o CompressCmds(sample_name, Tail(src_fq), Tail(is_gzip))

\* r1_cat_order / r2_cat_order: the source itself when it is gzip, else its
\* temporary compressed copy
CatOrder(sample_name, src_fq, is_gzip) ==
    [i \in 1..Len(src_fq) |->
        IF is_gzip[i] THEN src_fq[i]
        ELSE [TmpFq(sample_name, src_fq[i]) EXCEPT !.gz = TRUE]]

\* tmp_r1 / tmp_r2: the set of temporary copies
TmpSet(sample_name, src_fq, is_gzip) ==
    {TmpFq(sample_name, src_fq[i]) : i \in {j \in 1..Len(src_fq) : ~is_gzip[j]}}

\* the orders in which a python set may be iterated
SetOrders(S) == {f \in [1..Cardinality(S) -> S] : Range(f) = S}

\* MergeCmdList removing the temporary copies before the checksum
MergeCmdList_CleanupFirst(sample_name, src_fq, is_gzip, dest, rm_order) ==
    CompressCmds(sample_name, src_fq, is_gzip)
    \o << Cmd("cat", CatOrder(sample_name, src_fq, is_gzip), dest) >>
    \o [i \in 1..Len(rm_order) |->
           Cmd("rm", <<>>, [rm_order[i] EXCEPT !.gz = TRUE])]
    \o << Cmd("md5sum", <<dest>>, dest),
          Cmd("count", <<dest>>, dest) >>

\* the command list of one read end; rm_order is the iteration order of the
\* set of temporary copies
MergeCmdList(sample_name, src_fq, is_gzip, dest, rm_order) ==
    CompressCmds(sample_name, src_fq, is_gzip)
    \o << Cmd("cat", CatOrder(sample_name, src_fq, is_gzip), dest),
          Cmd("md5sum", <<dest>>, dest),
          Cmd("count", <<dest>>, dest) >>
    \o [i \in 1..Len(rm_order) |->
           Cmd("rm", <<>>, [rm_order[i] EXCEPT !.gz = TRUE])]

\* the sorted rows of one read end of a sample
SortedReadNum(sample_name, n) ==
    SortValues(GetReadNum(GetGroup(df_smaps, sample_name), n))

\* the outcome of the loop body up to the command lists: an error message
\* or the destination index entry
MergeBody(sample_name) ==
    LET df == GetGroup(df_smaps, sample_name)
        Fail(msg) == [err |-> msg, dest |-> <<>>]
        \* the index entry is written before the source files are looked up
        NotFound(msg, d) == [err |-> msg, dest |-> <<d>>]
    IN  IF NUnique(Col(df, LAMBDA r : r.index_sequence)) # 1
        THEN Fail("Merge-samples should all have the same index sequence.")
        ELSE IF GetReadNum(df, 1) = <<>> THEN Fail("KeyError: 1")
        ELSE IF GetReadNum(df, 2) = <<>> THEN Fail("KeyError: 2")
        ELSE
        LET df_read_num_1 == SortedReadNum(sample_name, 1)
            df_read_num_2 == SortedReadNum(sample_name, 2)
            sort_order_1 == ListOfFrame(df_read_num_1,
                                        <<"flow_cell_id", "lane_number">>)
            sort_order_2 == ListOfFrame(df_read_num_2,
                                        <<"flow_cell_id", "lane_number">>)
            name_r1 == Col(df_read_num_1, LAMBDA r : r.revised_sample_name)
            name_r2 == Col(df_read_num_2, LAMBDA r : r.revised_sample_name)
            src_r1_fq == Col(df_read_num_1, LAMBDA r : r.fastq_path)
            src_r2_fq == Col(df_read_num_2, LAMBDA r : r.fastq_path)
        IN  IF sort_order_1 # sort_order_2
            THEN Fail("Merge-samples sort order was not maintained.")
            ELSE IF Range(name_r1) # Range(name_r2)
            THEN Fail("Merge-samples revised sample names are not equal.")
            ELSE IF Cardinality(Range(name_r1)) > 1
                    \/ Cardinality(Range(name_r2)) > 1
            THEN Fail("Merge-samples revised names must be unique.")
            ELSE IF sample_name \in DOMAIN dest_fq_index
            THEN Fail("Sample name should not be duplicated in FASTQ index.")
            ELSE
            LET d == [R1 |-> DestFq(sample_name, name_r1[1], "R1"),
                      R2 |-> DestFq(sample_name, name_r2[1], "R2")]
            IN  IF ~IsGzipList(src_r1_fq).found
                THEN NotFound("FASTQ R1 comp or decomp file not found.", d)
                ELSE IF ~IsGzipList(src_r2_fq).found
                THEN NotFound("FASTQ R2 comp or decomp file not found.", d)
                ELSE [err |-> "", dest |-> <<d>>]

SetupMergeCmds(sample_name) ==
    /\ pc = "setup_merge_cmds"
    /\ sample_name \in merge_todo
    /\ LET out == MergeBody(sample_name)
       IN  IF out.err # ""
           THEN /\ pc' = "failed"
                /\ err' = out.err
                /\ dest_fq_index' =
                       IF out.dest = <<>> THEN dest_fq_index
                       ELSE Put(dest_fq_index, sample_name, out.dest[1])
                /\ UNCHANGED <<merge_todo, merge_cmds>>
           ELSE LET src_r1_fq == Col(SortedReadNum(sample_name, 1),
                                     LAMBDA r : r.fastq_path)
                    src_r2_fq == Col(SortedReadNum(sample_name, 2),
                                     LAMBDA r : r.fastq_path)
                    r1_is_gzip == IsGzipList(src_r1_fq).is_gzip
                    r2_is_gzip == IsGzipList(src_r2_fq).is_gzip
                IN  \E rm1 \in SetOrders(TmpSet(sample_name, src_r1_fq,
                                                r1_is_gzip)),
                       rm2 \in SetOrders(TmpSet(sample_name, src_r2_fq,
                                                r2_is_gzip)) :
                      /\ merge_cmds' = Append(merge_cmds,
                           [sample_name |-> sample_name,
                            r1 |-> MergeCmdList(sample_name, src_r1_fq,
                                       r1_is_gzip, out.dest[1].R1, rm1),
                            r2 |-> MergeCmdList(sample_name, src_r2_fq,
                                       r2_is_gzip, out.dest[1].R2, rm2)])
                      /\ dest_fq_index' = Put(dest_fq_index, sample_name,
                                              out.dest[1])
                      /\ merge_todo' = merge_todo \ {sample_name}
                      /\ pc' = IF merge_todo' # {} THEN "setup_merge_cmds"
                               ELSE "update_df_cmds"
                      /\ err' = ""
    /\ UNCHANGED <<df_smaps, fs, smap_files, prior_plans, single_copy_ids, merge_copy_ids,
                   copy_todo, copy_cmds, samplemap_merged>>
    /\ UNCHANGED renameVars
    /\ UNCHANGED jobVars
    /\ UNCHANGED reconVars

(***************************************************************************)
(* MergeFastq.__update_df_cmds, __update_df_dest_fq                        *)
(***************************************************************************)
\* df[name] = value, for one row
WithCol(r, name, value) == (name :> value) @@ r

\* RowCmds that takes the R1 commands whatever the read number of the row
RowCmds_FirstEnd(r) ==
    IF r.sample_name \in CmdKeys(copy_cmds)
    THEN <<CmdsOf(copy_cmds, r.sample_name).r1>>
    ELSE IF r.sample_name \in CmdKeys(merge_cmds)
    THEN <<CmdsOf(merge_cmds, r.sample_name).r1>>
    ELSE <<>>

\* the merged_commands entry of one row; <<>> when its sample is in neither
\* dict of commands
RowCmds(r) ==
    IF r.sample_name \in CmdKeys(copy_cmds)
    THEN <<IF r.read_number = 1 THEN CmdsOf(copy_cmds, r.sample_name).r1
           ELSE CmdsOf(copy_cmds, r.sample_name).r2>>
    ELSE IF r.sample_name \in CmdKeys(merge_cmds)
    THEN <<IF r.read_number = 1 THEN CmdsOf(merge_cmds, r.sample_name).r1
           ELSE CmdsOf(merge_cmds, r.sample_name).r2>>
    ELSE <<>>

UpdateDfCmds ==
    /\ pc = "update_df_cmds"
    /\ IF \E i \in 1..Len(samplemap_merged) : RowCmds(samplemap_merged[i]) = <<>>
       THEN /\ pc' = "failed"
            /\ err' = "Sample name missing in copy commands keys."
            /\ UNCHANGED samplemap_merged
       ELSE /\ samplemap_merged' =
                  [i \in 1..Len(samplemap_merged) |->
                      WithCol(samplemap_merged[i], "merged_commands",
                              RowCmds(samplemap_merged[i])[1])]
            /\ pc' = "update_df_dest_fq"
            /\ err' = ""
    /\ UNCHANGED <<df_smaps, fs, smap_files, prior_plans>>
    /\ UNCHANGED planVars
    /\ UNCHANGED renameVars
    /\ UNCHANGED jobVars
    /\ UNCHANGED reconVars

UpdateDfDestFq ==
    /\ pc = "update_df_dest_fq"
    /\ IF \E i \in 1..Len(samplemap_merged) :
            samplemap_merged[i].sample_name \notin DOMAIN dest_fq_index
       THEN /\ pc' = "failed"
            /\ err' = "Sample name not in the destination FASTQ index."
            /\ UNCHANGED samplemap_merged
       ELSE /\ samplemap_merged' =
                  [i \in 1..Len(samplemap_merged) |->
                      LET r == samplemap_merged[i]
                      IN  WithCol(r, "merged_fastq_path",
                                  IF r.read_number = 1
                                  THEN dest_fq_index[r.sample_name].R1
                                  ELSE dest_fq_index[r.sample_name].R2)]
            /\ pc' = "update_df_read_counts"
            /\ err' = ""
    /\ UNCHANGED <<df_smaps, fs, smap_files, prior_plans>>
    /\ UNCHANGED planVars
    /\ UNCHANGED renameVars
    /\ UNCHANGED jobVars
    /\ UNCHANGED reconVars

(***************************************************************************)
(* MergeFastq.__update_df_read_counts                                      *)
(***************************************************************************)
\* the summed gtac_fastq_reads of the rows of (sample_name, read_number)
GroupSum(df, sample_name, read_number) ==
    SumSeq(Col(GetReadNum(GetGroup(df, sample_name), read_number),
               LAMBDA r : r.gtac_fastq_reads))

\* count_index after the loop over the (sample_name, read_number) groups,
\* visited in ascending key order: every group assigns
\* count_index[sample_name], so a later group replaces an earlier one
CountIndex(df) ==
    LET HasGroup(n, rn) == GetReadNum(GetGroup(df, n), rn) # <<>>
        after_1 == [n \in {m \in SampleGroups(df) : HasGroup(m, 1)} |->
                       GroupSum(df, n, 1)]
    IN  [n \in SampleGroups(df) |->
            IF HasGroup(n, 2) THEN GroupSum(df, n, 2) ELSE after_1[n]]

\* df.groupby('revised_sample_name').groups
RevisedGroups(df) == {df[i].revised_sample_name : i \in 1..Len(df)}

\* dfg.get_group(revised name)
GetRevised(df, name) ==
    LET Test(r) == r.revised_sample_name = name IN Rows(df, Test)

\* list(set(column))[0]
FirstOfSet(col) == CHOOSE v \in Range(col) : TRUE

\* the check at the end of __update_df_read_counts: the first failure met
\* over the samples, "" when there is none
GtacCountsCheck(df) ==
    LET Bad(name) ==
            LET dfi == GetRevised(df, name)
                r1  == GetReadNum(dfi, 1)
                r2  == GetReadNum(dfi, 2)
            IN  IF r1 = <<>> THEN "KeyError: 1"
                ELSE IF r2 = <<>> THEN "KeyError: 2"
                ELSE IF FirstOfSet(Col(r1, LAMBDA r : r.gtac_sample_reads))
                        # FirstOfSet(Col(r2, LAMBDA r : r.gtac_sample_reads))
                THEN "GTAC sample counts do not match for R1 & R2."
                ELSE IF FirstOfSet(Col(r1, LAMBDA r : r.gtac_end_pair_reads))
                        # FirstOfSet(Col(r2, LAMBDA r : r.gtac_end_pair_reads))
                THEN "GTAC end pair counts do not match for R1 & R2."
                ELSE ""
        bad == {name \in RevisedGroups(df) : Bad(name) # ""}
    IN  IF bad = {} THEN "" ELSE Bad(SortedNames(bad)[1])

UpdateDfReadCounts ==
    /\ pc = "update_df_read_counts"
    /\ LET count_index == CountIndex(samplemap_merged)
           updated ==
               [i \in 1..Len(samplemap_merged) |->
                   LET r == samplemap_merged[i]
                       merged_reads == count_index[r.sample_name]
                       all_reads == merged_reads * 2
                   IN  WithCol(WithCol(r, "gtac_end_pair_reads", merged_reads),
                               "gtac_sample_reads", all_reads)]
       IN  /\ samplemap_merged' = updated
           /\ err' = GtacCountsCheck(updated)
           /\ pc' = IF err' = "" THEN "merged" ELSE "failed"
    /\ UNCHANGED <<df_smaps, fs, smap_files, prior_plans>>
    /\ UNCHANGED planVars
    /\ UNCHANGED renameVars
    /\ UNCHANGED jobVars
    /\ UNCHANGED reconVars

(***************************************************************************)
(* The construction of a MergeFastq object, MergeFastq.__init__, from a    *)
(* Samplemap table that passed normalization.                              *)
(***************************************************************************)

\* one row of the Samplemap table as __parse_samplemaps leaves it
MkRawRow(sample_name, fc, lane, read_number, reads) ==
    [fastq_path       |-> FastqPath(sample_name, fc, lane, read_number),
     flow_cell_id     |-> fc,
     index_sequence   |-> "ACGT",
     lane_number      |-> lane,
     read_number      |-> read_number,
     sample_name      |-> sample_name,
     gtac_fastq_reads |-> reads,
     batch_id         |-> 1]

\* one row of the normalized, annotated Samplemap table
MkRow(sample_name, fc, lane, read_number, reads) ==
    WithCol(MkRawRow(sample_name, fc, lane, read_number, reads),
            "revised_sample_name", RevisedName(sample_name))

\* the rows a sample may have.  In family "keys" the flow cell and the lane
\* of the first sample's rows vary, in family "reads" the provider's read
\* count of its rows, and in family "files" the state of the source files;
\* the rows of the other samples vary in their read end only.
RowsOf(family, sample_name) ==
    IF sample_name # SampleOrder[1] \/ family = "files"
    THEN {MkRow(sample_name, FlowCells[1], 1, rn, 1) : rn \in ReadNumbers}
    ELSE IF family = "keys"
    THEN {MkRow(sample_name, fc, lane, rn, 1) :
             fc \in FlowCellSet, lane \in Lanes, rn \in ReadNumbers}
    ELSE {MkRow(sample_name, FlowCells[1], 1, rn, reads) :
             rn \in ReadNumbers, reads \in 1..MaxReads}

\* the tables of n rows whose rows are grouped by sample, for the samples
\* from position k of SampleOrder on (no operation of the program depends
\* on how the rows of different samples interleave)
RECURSIVE GroupedTables(_, _, _)
GroupedTables(family, k, n) ==
    IF k > Len(SampleOrder) THEN (IF n = 0 THEN {<<>>} ELSE {})
    ELSE UNION {{a \o b : a \in [1..m -> RowsOf(family, SampleOrder[k])],
                          b \in GroupedTables(family, k + 1, n - m)} :
                m \in 0..n}

Tables(family) == UNION {GroupedTables(family, 1, n) : n \in 1..MaxRecords}

\* the --rename rows of a table's samples
RenameRowsFor(df) ==
    LET Test(n) == n \in SampleGroups(df)
        names == SelectSeq(SampleOrder, Test)
    IN  [i \in 1..Len(names) |->
            [samplemap_sample_id |-> names[i],
             revised_sample_id   |-> RevisedName(names[i])]]

\* the column labels RenameSamples expects
RenameFields == <<"samplemap_sample_id", "revised_sample_id", "comments">>

ReconIdle ==
    /\ counts_files = EmptyMap
    /\ gtac_counts_file = <<>>
    /\ merged_samplemap_file = <<>>
    /\ df_gtac_counts = <<>>
    /\ df_merged = <<>>
    /\ df_src_seqcov = <<>>
    /\ df_comp = <<>>
    /\ told = <<>>

InitMerge ==
    /\ pc = "parse_fastq_copy_types"
    /\ err = ""
    /\ \E family \in {"keys", "reads", "files"} :
          \* df_smaps \in Tables(family), drawn sample by sample
          /\ \E n \in 1..MaxRecords : \E m \in 0..n :
                \E a \in [1..m -> RowsOf(family, SampleOrder[1])],
                   b \in GroupedTables(family, 2, n - m) :
                    df_smaps = a \o b
          /\ \E st \in (IF family = "files" THEN FileStates ELSE {"gz"}) :
               fs = [p \in {df_smaps[i].fastq_path : i \in 1..Len(df_smaps)}
                       |-> st]
    /\ rename_columns = RenameFields
    /\ rename_df = RenameRowsFor(df_smaps)
    /\ samplemap_merged = df_smaps
    /\ single_copy_ids = {}
    /\ merge_copy_ids = {}
    /\ copy_todo = {}
    /\ merge_todo = {}
    /\ dest_fq_index = EmptyMap
    /\ copy_cmds = <<>>
    /\ merge_cmds = <<>>
    /\ smap_files = <<>>
    /\ prior_plans = <<>>
    /\ all_jobs = <<>>
    /\ launched = <<>>
    /\ dirs = {}
    /\ ReconIdle

NextMerge ==
    \/ ParseFastqCopyTypes
    \/ \E sample_name \in SampleNames : SetupCopyCmds(sample_name)
    \/ \E sample_name \in SampleNames : SetupMergeCmds(sample_name)
    \/ UpdateDfCmds
    \/ UpdateDfDestFq
    \/ UpdateDfReadCounts

SpecMerge == InitMerge /\ [][NextMerge]_vars

(***************************************************************************)
(* Two runs of the planner on one annotated table and one state of the     *)
(* file system: when the first MergeFastq is constructed its plans are     *)
(* kept aside and a second MergeFastq is constructed from the same         *)
(* Samplemap.                                                              *)
(***************************************************************************)
\* the plans of a constructed MergeFastq
Plans ==
    [copy_cmds |-> copy_cmds, merge_cmds |-> merge_cmds,
     dest_fq_index |-> dest_fq_index]

RunAgain ==
    /\ pc = "merged"
    /\ prior_plans = <<>>
    /\ prior_plans' = <<Plans>>
    /\ samplemap_merged' = df_smaps
    /\ dest_fq_index' = EmptyMap
    /\ copy_cmds' = <<>>
    /\ merge_cmds' = <<>>
    /\ single_copy_ids' = {}
    /\ merge_copy_ids' = {}
    /\ pc' = "parse_fastq_copy_types"
    /\ UNCHANGED <<err, df_smaps, fs, smap_files, copy_todo, merge_todo>>
    /\ UNCHANGED renameVars
    /\ UNCHANGED jobVars
    /\ UNCHANGED reconVars

InitRerun ==
    /\ pc = "parse_fastq_copy_types"
    /\ err = ""
    /\ df_smaps \in Tables("files")
    /\ \E st \in FileStates :
          fs = [p \in {df_smaps[i].fastq_path : i \in 1..Len(df_smaps)}
                  |-> st]
    /\ rename_columns = RenameFields
    /\ rename_df = RenameRowsFor(df_smaps)
    /\ samplemap_merged = df_smaps
    /\ single_copy_ids = {}
    /\ merge_copy_ids = {}
    /\ copy_todo = {}
    /\ merge_todo = {}
    /\ dest_fq_index = EmptyMap
    /\ copy_cmds = <<>>
    /\ merge_cmds = <<>>
    /\ smap_files = <<>>
    /\ prior_plans = <<>>
    /\ all_jobs = <<>>
    /\ launched = <<>>
    /\ dirs = {}
    /\ ReconIdle

NextRerun ==
    \/ ParseFastqCopyTypes
    \/ \E sample_name \in SampleNames : SetupCopyCmds(sample_name)
    \/ \E sample_name \in SampleNames : SetupMergeCmds(sample_name)
    \/ UpdateDfCmds
    \/ UpdateDfDestFq
    \/ UpdateDfReadCounts
    \/ RunAgain

SpecRerun == InitRerun /\ [][NextRerun]_vars

(***************************************************************************)
(* The public methods of a constructed MergeFastq: setup_output_dirs,      *)
(* prepare_lsf_cmds and launch_lsf_jobs, called in any order.              *)
(***************************************************************************)
\* self.copy_cmds | self.merge_cmds
AllCmds == copy_cmds \o merge_cmds

\* the jobs one call of prepare_lsf_cmds appends
PreparedJobs ==
    [i \in 1..Len(AllCmds) |->
        [job_name |-> i, command |-> AllCmds[i].r1 \o AllCmds[i].r2]]

\* the MergeFastq object exists: __init__ has returned
Constructed_OrFailed == pc \in {"merged", "failed"}

Constructed == pc = "merged"

SetupOutputDirs ==
    /\ Constructed
    /\ IF "outdir" \in dirs
       THEN /\ pc' = "failed"
            /\ err' = "The outdir directory already exists."
            /\ UNCHANGED dirs
       ELSE /\ dirs' = {"outdir"} \cup CmdKeys(copy_cmds)
                       \cup CmdKeys(merge_cmds)
            /\ UNCHANGED <<pc, err>>
    /\ UNCHANGED <<df_smaps, fs, smap_files, prior_plans, samplemap_merged,
                   all_jobs, launched>>
    /\ UNCHANGED renameVars
    /\ UNCHANGED planVars
    /\ UNCHANGED reconVars

PrepareLsfCmds ==
    /\ Constructed
    /\ Len(all_jobs) < MaxCalls * Len(AllCmds)
    /\ all_jobs' = all_jobs \o PreparedJobs
    /\ UNCHANGED <<pc, err, df_smaps, fs, smap_files, prior_plans,
                   samplemap_merged, launched, dirs>>
    /\ UNCHANGED renameVars
    /\ UNCHANGED planVars
    /\ UNCHANGED reconVars

\* job.execute for every job of all_jobs
LaunchLsfJobs ==
    /\ Constructed
    /\ Len(launched) < MaxCalls * Len(all_jobs)
    /\ launched' = launched \o all_jobs
    /\ UNCHANGED <<pc, err, df_smaps, fs, smap_files, prior_plans,
                   samplemap_merged, all_jobs, dirs>>
    /\ UNCHANGED renameVars
    /\ UNCHANGED planVars
    /\ UNCHANGED reconVars

InitJobs ==
    /\ pc = "parse_fastq_copy_types"
    /\ err = ""
    /\ \E n \in 1..MaxRecords : \E m \in 0..n :
          \E a \in [1..m -> {MkRow(SampleOrder[1], FlowCells[1], lane, rn, 1) :
                                 lane \in Lanes, rn \in ReadNumbers}],
             b \in GroupedTables("files", 2, n - m) : df_smaps = a \o b
    \* the source files of one sample are all there or all missing
    /\ \E st \in [SampleNames -> {"gz", "none"}] :
          fs = [p \in {df_smaps[i].fastq_path : i \in 1..Len(df_smaps)} |->
                  st[(CHOOSE r \in Range(df_smaps) :
                         r.fastq_path = p).sample_name]]
    /\ rename_columns = RenameFields
    /\ rename_df = RenameRowsFor(df_smaps)
    /\ samplemap_merged = df_smaps
    /\ single_copy_ids = {}
    /\ merge_copy_ids = {}
    /\ copy_todo = {}
    /\ merge_todo = {}
    /\ dest_fq_index = EmptyMap
    /\ copy_cmds = <<>>
    /\ merge_cmds = <<>>
    /\ smap_files = <<>>
    /\ prior_plans = <<>>
    /\ all_jobs = <<>>
    /\ launched = <<>>
    /\ dirs \in {{}, {"outdir"}}
    /\ ReconIdle

NextJobs ==
    \/ ParseFastqCopyTypes
    \/ \E sample_name \in SampleNames : SetupCopyCmds(sample_name)
    \/ \E sample_name \in SampleNames : SetupMergeCmds(sample_name)
    \/ UpdateDfCmds
    \/ UpdateDfDestFq
    \/ UpdateDfReadCounts
    \/ SetupOutputDirs
    \/ PrepareLsfCmds
    \/ LaunchLsfJobs

SpecJobs == InitJobs /\ [][NextJobs]_vars

(***************************************************************************)
(* The planner on one sample whose source files lie on two flow cells and  *)
(* are found compressed or decompressed file by file.                      *)
(***************************************************************************)
\* the rows the sample may have: lane 2 of the first flow cell and lane 1 of
\* the second, either read end
MixedRows ==
    {MkRow(SampleOrder[1], FlowCells[1], 2, rn, 1) : rn \in ReadNumbers}
    \cup {MkRow(SampleOrder[1], FlowCells[2], 1, rn, 1) : rn \in ReadNumbers}

InitConsolidate ==
    /\ pc = "parse_fastq_copy_types"
    /\ err = ""
    /\ \E n \in 1..MaxRecords : df_smaps \in [1..n -> MixedRows]
    /\ fs \in [{df_smaps[i].fastq_path : i \in 1..Len(df_smaps)}
                  -> FileStates]
    /\ rename_columns = RenameFields
    /\ rename_df = RenameRowsFor(df_smaps)
    /\ samplemap_merged = df_smaps
    /\ single_copy_ids = {}
    /\ merge_copy_ids = {}
    /\ copy_todo = {}
    /\ merge_todo = {}
    /\ dest_fq_index = EmptyMap
    /\ copy_cmds = <<>>
    /\ merge_cmds = <<>>
    /\ smap_files = <<>>
    /\ prior_plans = <<>>
    /\ all_jobs = <<>>
    /\ launched = <<>>
    /\ dirs = {}
    /\ ReconIdle

NextConsolidate ==
    \/ ParseFastqCopyTypes
    \/ \E sample_name \in SampleNames : SetupCopyCmds(sample_name)
    \/ \E sample_name \in SampleNames : SetupMergeCmds(sample_name)
    \/ UpdateDfCmds
    \/ UpdateDfDestFq
    \/ UpdateDfReadCounts

SpecConsolidate == InitConsolidate /\ [][NextConsolidate]_vars

(***************************************************************************)
(* RenameSamples.__populate_df                                             *)
(***************************************************************************)
\* len(set(column.values)).  read_csv gives a column with no value at all
\* the float dtype, whose NaN cells are distinct set members; in a column
\* with some value every empty cell is the one NaN object.
LenOfSet(col) ==
    IF col # <<>> /\ Range(col) = {NaN} THEN Len(col)
    ELSE Cardinality(Range(col))

\* the size of the largest group of df.groupby(column); groupby drops NaN
MaxGroupSize(col) ==
    LET Size(v) == Cardinality({i \in 1..Len(col) : col[i] = v})
        keys == Range(col) \ {NaN}
    IN  IF keys = {} THEN 0
        ELSE CHOOSE n \in {Size(v) : v \in keys} :
                 \A v \in keys : Size(v) <= n

\* RenameCheck with both uniqueness tests made on samplemap_sample_id
RenameCheck_OriginalOnly(columns, df) ==
    LET samplemap_sample_id == Col(df, LAMBDA r : r.samplemap_sample_id)
    IN  IF columns # RenameFields
        THEN "Input file column names are incorrect."
        ELSE IF Len(df) = 0
        THEN "Input file contains no values."
        ELSE IF Len(samplemap_sample_id) # LenOfSet(samplemap_sample_id)
        THEN "The samplemap_sample_id column values are not unique."
        ELSE IF MaxGroupSize(samplemap_sample_id) > 1
        THEN "Samplemap to revised id is not one-to-one."
        ELSE ""

\* the exception __populate_df raises for a --rename file, "" when none
RenameCheck(columns, df) ==
    LET samplemap_sample_id == Col(df, LAMBDA r : r.samplemap_sample_id)
        revised_sample_id   == Col(df, LAMBDA r : r.revised_sample_id)
    IN  IF columns # RenameFields
        THEN "Input file column names are incorrect."
        ELSE IF Len(df) = 0
        THEN "Input file contains no values."
        ELSE IF Len(samplemap_sample_id) # LenOfSet(samplemap_sample_id)
        THEN "The samplemap_sample_id column values are not unique."
        ELSE IF Len(revised_sample_id) # LenOfSet(revised_sample_id)
        THEN "The revised_sample_id column values are not unique."
        ELSE IF MaxGroupSize(samplemap_sample_id) > 1
        THEN "Samplemap to revised id is not one-to-one."
        ELSE IF MaxGroupSize(revised_sample_id) > 1
        THEN "Samplemap to revised id is not one-to-one."
        ELSE ""

\* RenamePopulateDf taking the --rename file as it is
RenamePopulateDf_Unchecked ==
    /\ pc = "rename_populate_df"
    /\ err' = ""
    /\ pc' = "parse_samplemaps"
    /\ UNCHANGED <<df_smaps, fs, smap_files, prior_plans, samplemap_merged>>
    /\ UNCHANGED renameVars
    /\ UNCHANGED jobVars
    /\ UNCHANGED planVars
    /\ UNCHANGED reconVars

RenamePopulateDf ==
    /\ pc = "rename_populate_df"
    /\ err' = RenameCheck(rename_columns, rename_df)
    /\ pc' = IF err' = "" THEN "parse_samplemaps" ELSE "failed"
    /\ UNCHANGED <<df_smaps, fs, smap_files, prior_plans, samplemap_merged>>
    /\ UNCHANGED renameVars
    /\ UNCHANGED jobVars
    /\ UNCHANGED planVars
    /\ UNCHANGED reconVars

(***************************************************************************)
(* Samplemap.__parse_samplemaps.  A Samplemap.csv file is a record: the    *)
(* directory it lies in, its file name, its column labels and its rows.    *)
(* The FASTQ cell of a row is a file name, a record of the library, the    *)
(* flow cell, the lane and the read tag the name spells out.               *)
(***************************************************************************)
\* the column labels of smap_mid_2024_format
SmapMid2024Format ==
    {"FASTQ", "Flowcell ID", "Index Sequence", "Flowcell Lane", "ESP ID",
     "Pool Name", "Species", "Illumina Sample Type", "Library Type",
     "Library Name", "Date Complete", "Total Reads", "Total Bases",
     "PhiX Error Rate", "% Pass Filter Clusters", "% >Q30", "Avg Q Score"}

\* the error __type_samplemap_format raises for a file, "" when none
TypeSamplemapFormat(smap) ==
    IF smap.file_name # "Samplemap.csv"
    THEN "File name does not match Samplemap.csv format."
    ELSE IF smap.columns # SmapMid2024Format
    THEN "Unknown samplemap format type encountered."
    ELSE ""

\* the tags a FASTQ file name may carry between its lane and its counter
ReadTags == {"_R1_", "_R2_", "_r1_", "_r2_", "_I1_"}

\* a tag with its letters in upper case
Upper(tag) ==
    CASE tag = "_r1_" -> "_R1_"
      [] tag = "_r2_" -> "_R2_"
      [] OTHER -> tag

\* re.search('_R[12]_', fastq, re.IGNORECASE): the text of the file name
\* that matched, as the name spells it; <<>> for None
ReSearchReadTag(fastq) ==
    IF Upper(fastq.tag) \in {"_R1_", "_R2_"} THEN <<fastq.tag>> ELSE <<>>

\* the match statement on read_num_tag.group(): the read number of a row, or
\* the error raised
ReadNumberOf(fastq) ==
    LET read_num_tag == ReSearchReadTag(fastq)
    IN  IF read_num_tag = <<>>
        THEN [err |-> "Read-pair number tag is None.", read_number |-> 0]
        ELSE IF read_num_tag[1] = "_R1_"
        THEN [err |-> "", read_number |-> 1]
        ELSE IF read_num_tag[1] = "_R2_"
        THEN [err |-> "", read_number |-> 2]
        ELSE [err |-> "Read-pair number tag is not R1 or R2.",
              read_number |-> 0]

\* the read end a file name spells between the underscores of its tag
FileEnd(tag) ==
    CASE tag = "_R1_" -> "R1"
      [] tag = "_R2_" -> "R2"
      [] tag = "_r1_" -> "r1"
      [] tag = "_r2_" -> "r2"
      [] OTHER -> "I1"

\* BatchId giving every file the batch number 1
BatchId_Constant(i) == 1

\* the batch number enumerate(self.args.samplemap, 1) gives the i-th file
BatchId(i) == i

\* the row __parse_samplemap keeps of one row of the i-th file
ParseRow(i, smap, row) ==
    [fastq_path       |-> [dir  |-> smap.dir,
                           name |-> row.FASTQ.name,
                           fc   |-> row.FASTQ.fc,
                           lane |-> row.FASTQ.lane,
                           end  |-> FileEnd(row.FASTQ.tag),
                           gz   |-> TRUE],
     flow_cell_id     |-> row.Flowcell_ID,
     index_sequence   |-> row.Index_Sequence,
     lane_number      |-> row.Flowcell_Lane,
     read_number      |-> ReadNumberOf(row.FASTQ).read_number,
     sample_name      |-> row.Library_Name,
     gtac_fastq_reads |-> row.Total_Reads,
     batch_id         |-> BatchId(i)]

\* the error met while the i-th file is typed and parsed, "" when none
ParseSamplemapErr(smap) ==
    LET bad == {k \in 1..Len(smap.rows) :
                   ReadNumberOf(smap.rows[k].FASTQ).err # ""}
    IN  IF TypeSamplemapFormat(smap) # "" THEN TypeSamplemapFormat(smap)
        ELSE IF bad = {} THEN ""
        ELSE ReadNumberOf(
                 smap.rows[CHOOSE k \in bad : \A j \in bad : k <= j].FASTQ).err

\* pd.concat(dfs).reset_index(drop=True) of the parsed files i..Len(files)
RECURSIVE ConcatenateSamplemaps(_, _)
ConcatenateSamplemaps(files, i) ==
    IF i > Len(files) THEN <<>>
    ELSE [k \in 1..Len(files[i].rows) |->
             ParseRow(i, files[i], files[i].rows[k])]
         \o ConcatenateSamplemaps(files, i + 1)

\* EvalCrossBatchSampleIds accepting every table
EvalCrossBatchSampleIds_Skipped(df) == ""

\* the error __eval_cross_batch_sample_ids raises for a table, "" when none
EvalCrossBatchSampleIds(df) ==
    IF \E n \in SampleGroups(df) :
           NUnique(Col(GetGroup(df, n), LAMBDA r : r.batch_id)) > 1
    THEN "Sample exists across multiple batches."
    ELSE ""

ParseSamplemaps ==
    /\ pc = "parse_samplemaps"
    /\ LET bad == {i \in 1..Len(smap_files) :
                      ParseSamplemapErr(smap_files[i]) # ""}
           df  == ConcatenateSamplemaps(smap_files, 1)
       IN  IF bad # {}
           THEN /\ pc' = "failed"
                /\ err' = ParseSamplemapErr(
                       smap_files[CHOOSE i \in bad : \A j \in bad : i <= j])
                /\ UNCHANGED df_smaps
           ELSE /\ df_smaps' = df
                /\ err' = EvalCrossBatchSampleIds(df)
                /\ pc' = IF err' = "" THEN "eval_smap_seq_indexes"
                         ELSE "failed"
    /\ UNCHANGED <<fs, smap_files, prior_plans, samplemap_merged>>
    /\ UNCHANGED renameVars
    /\ UNCHANGED jobVars
    /\ UNCHANGED planVars
    /\ UNCHANGED reconVars

(***************************************************************************)
(* Samplemap.__init__ after __parse_samplemaps: __eval_smap_seq_indexes,   *)
(* __eval_compare_sample_ids, __add_rename_ids_to_df                       *)
(***************************************************************************)
\* SeqIndexOffenders finding no sample
SeqIndexOffenders_None(df) == {}

\* the samples whose rows do not carry exactly one index sequence
SeqIndexOffenders(df) ==
    {n \in SampleGroups(df) :
        NUnique(Col(GetGroup(df, n), LAMBDA r : r.index_sequence)) # 1}

\* EvalSmapSeqIndexes letting every table through
EvalSmapSeqIndexes_LetThrough ==
    /\ pc = "eval_smap_seq_indexes"
    /\ pc' = "eval_compare_sample_ids"
    /\ err' = ""
    /\ UNCHANGED <<df_smaps, fs, smap_files, prior_plans, samplemap_merged>>
    /\ UNCHANGED renameVars
    /\ UNCHANGED jobVars
    /\ UNCHANGED planVars
    /\ UNCHANGED reconVars

EvalSmapSeqIndexes ==
    /\ pc = "eval_smap_seq_indexes"
    /\ IF SeqIndexOffenders(df_smaps) # {}
       THEN /\ pc' = "failed"
            /\ err' = "Bad sample id to sequence index cardinality."
       ELSE /\ pc' = "eval_compare_sample_ids"
            /\ err' = ""
    /\ UNCHANGED <<df_smaps, fs, smap_files, prior_plans, samplemap_merged>>
    /\ UNCHANGED renameVars
    /\ UNCHANGED jobVars
    /\ UNCHANGED planVars
    /\ UNCHANGED reconVars

\* a comparison that only asks for every table id to be in the map
SampleIdsDiffer_MissingOnly(smap_sample_ids, rename_sample_ids) ==
    ~(smap_sample_ids \subseteq rename_sample_ids)

\* smap_sample_ids != rename_sample_ids
SampleIdsDiffer(smap_sample_ids, rename_sample_ids) ==
    smap_sample_ids # rename_sample_ids

EvalCompareSampleIds ==
    /\ pc = "eval_compare_sample_ids"
    /\ LET rename_sample_ids ==
               Range(Col(rename_df, LAMBDA r : r.samplemap_sample_id))
           smap_sample_ids == SampleGroups(df_smaps)
       IN  IF SampleIdsDiffer(smap_sample_ids, rename_sample_ids)
           THEN /\ pc' = "failed"
                /\ err' = "Sample ids for Samplemap and RenameSamples classes do not match."
           ELSE /\ pc' = "add_rename_ids_to_df"
                /\ err' = ""
    /\ UNCHANGED <<df_smaps, fs, smap_files, prior_plans, samplemap_merged>>
    /\ UNCHANGED renameVars
    /\ UNCHANGED jobVars
    /\ UNCHANGED planVars
    /\ UNCHANGED reconVars

\* dfg.get_group(sample_id)['revised_sample_id'], as a list
RevisedIdsOf(df_rename, sample_id) ==
    LET Test(r) == r.samplemap_sample_id = sample_id
    IN  Col(Rows(df_rename, Test), LAMBDA r : r.revised_sample_id)

\* RenameRow without the test for a null revised id
RenameRow_NoNullCheck(df_rename, sample_id) ==
    LET ids == RevisedIdsOf(df_rename, sample_id)
    IN  IF ids = <<>>
        THEN [err |-> "Samplemap samplemap_sample_id is not in the RenameSamples index.",
              id  |-> NaN]
        ELSE [err |-> "", id |-> ids[1]]

\* the outcome of the loop body of __add_rename_ids_to_df for one row: an
\* error message, or the revised id to append
RenameRow(df_rename, sample_id) ==
    LET ids == RevisedIdsOf(df_rename, sample_id)
    IN  IF ids = <<>>
        THEN [err |-> "Samplemap samplemap_sample_id is not in the RenameSamples index.",
              id  |-> NaN]
        ELSE IF Len(ids) # 1
        THEN [err |-> "can only convert an array of size 1 to a Python scalar",
              id  |-> NaN]
        ELSE IF ids[1] = NaN
        THEN [err |-> "RenameSamples revised_sample_id is null.", id |-> NaN]
        ELSE [err |-> "", id |-> ids[1]]

AddRenameIdsToDf ==
    /\ pc = "add_rename_ids_to_df"
    /\ LET out == [i \in 1..Len(df_smaps) |->
                      RenameRow(rename_df, df_smaps[i].sample_name)]
           bad == {i \in 1..Len(df_smaps) : out[i].err # ""}
       IN  IF bad # {}
           THEN /\ pc' = "failed"
                /\ err' = out[CHOOSE i \in bad : \A j \in bad : i <= j].err
                /\ UNCHANGED df_smaps
           ELSE /\ df_smaps' = [i \in 1..Len(df_smaps) |->
                                   WithCol(df_smaps[i], "revised_sample_name",
                                           out[i].id)]
                /\ pc' = "normalized"
                /\ err' = ""
    /\ UNCHANGED <<fs, smap_files, prior_plans, samplemap_merged>>
    /\ UNCHANGED renameVars
    /\ UNCHANGED jobVars
    /\ UNCHANGED planVars
    /\ UNCHANGED reconVars

(***************************************************************************)
(* The identity map and its application: RenameSamples(args) followed by   *)
(* Samplemap(args, rename), from the two input files.                      *)
(***************************************************************************)
RevisedIds == {"rA", "rB", NaN}

\* the --rename files of at most MaxMapRows rows
RenameFiles ==
    UNION {[1..n -> [samplemap_sample_id : SampleNames,
                     revised_sample_id   : RevisedIds]] : n \in 0..MaxMapRows}

\* one row of a Samplemap.csv file
CsvRow(sample_name, fc, lane, tag, index_sequence, reads) ==
    [FASTQ          |-> [name |-> sample_name, fc |-> fc, lane |-> lane,
                         tag |-> tag],
     Flowcell_ID    |-> fc,
     Index_Sequence |-> index_sequence,
     Flowcell_Lane  |-> lane,
     Library_Name   |-> sample_name,
     Total_Reads    |-> reads]

\* a well-formed Samplemap.csv file
SmapFile(dir, rows) ==
    [dir |-> dir, file_name |-> "Samplemap.csv",
     columns |-> SmapMid2024Format, rows |-> rows]

\* the paths of the FASTQ files a list of Samplemap.csv files names
PathsOf(files) ==
    UNION {{ParseRow(i, files[i], files[i].rows[k]).fastq_path :
               k \in 1..Len(files[i].rows)} : i \in 1..Len(files)}

\* the Samplemap.csv files of one batch, which here vary in the sample
\* names of their rows
NamedFiles ==
    LET Raw(n) == {CsvRow(n, FlowCells[1], 1, "_R1_", "ACGT", 1)}
        RECURSIVE Grouped(_, _)
        Grouped(k, n) ==
            IF k > Len(SampleOrder) THEN (IF n = 0 THEN {<<>>} ELSE {})
            ELSE UNION {{a \o b : a \in [1..m -> Raw(SampleOrder[k])],
                                  b \in Grouped(k + 1, n - m)} : m \in 0..n}
    IN  {SmapFile("fastq_dir", rows) :
            rows \in UNION {Grouped(1, n) : n \in 1..MaxRecords}}

InitIdentity ==
    /\ pc = "rename_populate_df"
    /\ err = ""
    /\ rename_columns \in {RenameFields, SubSeq(RenameFields, 1, 2)}
    /\ rename_df \in RenameFiles
    /\ \E smap \in NamedFiles : smap_files = <<smap>>
    /\ df_smaps = <<>>
    /\ fs = [p \in PathsOf(smap_files) |-> "gz"]
    /\ samplemap_merged = <<>>
    /\ single_copy_ids = {}
    /\ merge_copy_ids = {}
    /\ copy_todo = {}
    /\ merge_todo = {}
    /\ dest_fq_index = EmptyMap
    /\ copy_cmds = <<>>
    /\ merge_cmds = <<>>
    /\ prior_plans = <<>>
    /\ all_jobs = <<>>
    /\ launched = <<>>
    /\ dirs = {}
    /\ ReconIdle

NextIdentity ==
    \/ RenamePopulateDf
    \/ ParseSamplemaps
    \/ EvalSmapSeqIndexes
    \/ EvalCompareSampleIds
    \/ AddRenameIdsToDf

SpecIdentity == InitIdentity /\ [][NextIdentity]_vars

(***************************************************************************)
(* The pipeline: RenameSamples(args), Samplemap(args, rename) and          *)
(* MergeFastq(args, rename, samplemap), each constructed from the object   *)
(* before it.                                                              *)
(***************************************************************************)
\* MergeFastq.__init__ up to its first method: it takes the constructed
\* Samplemap, copies its table and starts with empty plans
ConstructMergeFastq ==
    /\ pc = "normalized"
    /\ samplemap_merged' = df_smaps
    /\ dest_fq_index' = EmptyMap
    /\ copy_cmds' = <<>>
    /\ merge_cmds' = <<>>
    /\ single_copy_ids' = {}
    /\ merge_copy_ids' = {}
    /\ pc' = "parse_fastq_copy_types"
    /\ UNCHANGED <<err, df_smaps, fs, smap_files, prior_plans, copy_todo,
                   merge_todo>>
    /\ UNCHANGED renameVars
    /\ UNCHANGED jobVars
    /\ UNCHANGED reconVars

IndexSequences == {"ACGT", "TTAG"}

\* the rows a Samplemap.csv file may have for a sample.  In family "tags"
\* the read tag of the FASTQ name varies, in family "indexes" the index
\* sequence, in family "lanes" the lane and the read end, in the other
\* families the flow cell and the read end.
CsvRowsOf(family, sample_name) ==
    IF family = "tags"
    THEN {CsvRow(sample_name, FlowCells[1], 1, tag, "ACGT", 1) :
             tag \in ReadTags}
    ELSE IF family = "indexes"
    THEN {CsvRow(sample_name, FlowCells[1], 1, tag, ix, 1) :
             tag \in {"_R1_", "_R2_"}, ix \in IndexSequences}
    ELSE IF family = "lanes"
    THEN {CsvRow(sample_name, FlowCells[1], lane, tag, "ACGT", 1) :
             lane \in Lanes, tag \in {"_R1_", "_R2_"}}
    ELSE {CsvRow(sample_name, fc, 1, tag, "ACGT", 1) :
             fc \in FlowCellSet, tag \in {"_R1_", "_R2_"}}

\* the row lists of n rows, grouped by sample, for the samples from position
\* k of SampleOrder on
RECURSIVE GroupedCsvRows(_, _, _)
GroupedCsvRows(family, k, n) ==
    IF k > Len(SampleOrder) THEN (IF n = 0 THEN {<<>>} ELSE {})
    ELSE UNION {{a \o b : a \in [1..m -> CsvRowsOf(family, SampleOrder[k])],
                          b \in GroupedCsvRows(family, k + 1, n - m)} :
                m \in 0..n}

\* the rows of a file of a sequencing batch: one sample, both read ends of
\* one lane or of two lanes
BatchRows(sample_name) ==
    {[k \in 1..(2 * lanes) |->
         CsvRow(sample_name, FlowCells[1], (k + 1) \div 2,
                IF k % 2 = 1 THEN "_R1_" ELSE "_R2_", "ACGT", 1)] :
        lanes \in 1..(MaxRecords \div 4)}

\* the lists of Samplemap.csv files of args.samplemap
SamplemapArgs(family) ==
    IF family = "batches"
    THEN {<<SmapFile("fastq_dir", r1), SmapFile("fastq_dir_2", r2)>> :
             r1 \in UNION {BatchRows(n) : n \in SampleNames},
             r2 \in UNION {BatchRows(n) : n \in SampleNames}}
    ELSE IF family = "schema"
    THEN {<<[dir |-> "fastq_dir", file_name |-> file_name,
             columns |-> columns, rows |-> rows]>> :
             file_name \in {"Samplemap.csv", "samplemap.tsv"},
             columns \in {SmapMid2024Format,
                          SmapMid2024Format \ {"Total Reads"}},
             rows \in GroupedCsvRows(family, 1, 2)}
    ELSE {<<SmapFile("fastq_dir", rows)>> :
             rows \in UNION {GroupedCsvRows(family, 1, n) :
                                n \in 1..MaxRecords}}

\* the --rename files given with a list of Samplemap.csv files: the rows of
\* its samples, those rows with the first sample listed twice, and those
\* rows without the first sample
RenameArgs(files) ==
    LET good == RenameRowsFor(ConcatenateSamplemaps(files, 1))
    IN  {good, good \o <<good[1]>>, Tail(good)}

InitPipeline ==
    /\ pc = "rename_populate_df"
    /\ err = ""
    /\ rename_columns = RenameFields
    /\ \E family \in {"tags", "indexes", "lanes", "plans", "batches",
                       "schema"} :
          /\ smap_files \in SamplemapArgs(family)
          /\ rename_df \in (IF family = "plans" THEN RenameArgs(smap_files)
                            ELSE {RenameRowsFor(
                                      ConcatenateSamplemaps(smap_files, 1))})
          /\ \E st \in (IF family = "plans" THEN FileStates ELSE {"gz"}) :
                fs = [p \in PathsOf(smap_files) |-> st]
    /\ df_smaps = <<>>
    /\ samplemap_merged = <<>>
    /\ single_copy_ids = {}
    /\ merge_copy_ids = {}
    /\ copy_todo = {}
    /\ merge_todo = {}
    /\ dest_fq_index = EmptyMap
    /\ copy_cmds = <<>>
    /\ merge_cmds = <<>>
    /\ prior_plans = <<>>
    /\ all_jobs = <<>>
    /\ launched = <<>>
    /\ dirs = {}
    /\ ReconIdle

NextPipeline ==
    \/ RenamePopulateDf
    \/ ParseSamplemaps
    \/ EvalSmapSeqIndexes
    \/ EvalCompareSampleIds
    \/ AddRenameIdsToDf
    \/ ConstructMergeFastq
    \/ ParseFastqCopyTypes
    \/ \E sample_name \in SampleNames : SetupCopyCmds(sample_name)
    \/ \E sample_name \in SampleNames : SetupMergeCmds(sample_name)
    \/ UpdateDfCmds
    \/ UpdateDfDestFq
    \/ UpdateDfReadCounts

SpecPipeline == InitPipeline /\ [][NextPipeline]_vars

(***************************************************************************)
(* ReadCountsSource: the reconciler.  __init__ runs the methods below in   *)
(* order; tell_comp_differences is called on the constructed object.       *)
(***************************************************************************)
\* ReadCountsSource.__set_target_coverages
TargetCounts ==
    << 100000, 200000, 300000, 400000, 500000, 1000000, 1500000, 2000000,
       2500000, 3000000, 3500000, 4000000, 4500000, 5000000, 10000000,
       20000000, 30000000, 40000000, 50000000 >>

\* ReadCountsSource.target_min_perct
TargetMinPerct == 80

\* num / den rounded to the nearest integer, ties to the even one
RoundHalfEven(num, den) ==
    LET q == num \div den
        r == num % den
    IN  IF 2 * r < den THEN q
        ELSE IF 2 * r > den THEN q + 1
        ELSE IF q % 2 = 0 THEN q ELSE q + 1

\* the percent/pass column pairs of one row of a throughput table, one pair
\* per target in the order of TargetCounts.  A percent is held in hundredths:
\* round(((sample_counts / halve) / target) * 100, 2) * 100.
TargetCols(sample_counts, halve, passed_prefix) ==
    [i \in 1..Len(TargetCounts) |->
        LET perct_of_target ==
                RoundHalfEven(sample_counts * 10000, halve * TargetCounts[i])
        IN  [perct_label     |-> <<"perct_of_", TargetCounts[i]>>,
             perct_of_target |-> perct_of_target,
             is_passed_label |-> <<passed_prefix, TargetCounts[i]>>,
             is_passed       |-> ~(perct_of_target < TargetMinPerct * 100)]]

\* ReadCountsSource.__populate_gtac_df
PopulateGtacDf ==
    /\ pc = "populate_gtac_df"
    /\ df_gtac_counts' = gtac_counts_file
    /\ pc' = "populate_merged_df"
    /\ err' = ""
    /\ UNCHANGED <<df_smaps, fs, smap_files, prior_plans, samplemap_merged, counts_files,
                   gtac_counts_file, merged_samplemap_file, df_merged,
                   df_src_seqcov, df_comp, told>>
    /\ UNCHANGED renameVars
    /\ UNCHANGED jobVars
    /\ UNCHANGED planVars

\* ReadCountsSource.__populate_merged_df
PopulateMergedDf ==
    /\ pc = "populate_merged_df"
    /\ df_merged' = merged_samplemap_file
    /\ pc' = "col_src_end_pair_reads"
    /\ err' = ""
    /\ UNCHANGED <<df_smaps, fs, smap_files, prior_plans, samplemap_merged, counts_files,
                   gtac_counts_file, merged_samplemap_file, df_gtac_counts,
                   df_src_seqcov, df_comp, told>>
    /\ UNCHANGED renameVars
    /\ UNCHANGED jobVars
    /\ UNCHANGED planVars

\* ColSrcEndPairReads counting 0 reads for an artifact without a side file
ColSrcEndPairReads_ZeroForMissing ==
    /\ pc = "col_src_end_pair_reads"
    /\ df_merged' =
           [i \in 1..Len(df_merged) |->
               WithCol(df_merged[i], "src_end_pair_reads",
                       IF df_merged[i].merged_fastq_path
                              \in DOMAIN counts_files
                       THEN counts_files[df_merged[i].merged_fastq_path]
                       ELSE 0)]
    /\ pc' = "col_src_sample_reads"
    /\ err' = ""
    /\ UNCHANGED <<df_smaps, fs, smap_files, prior_plans, samplemap_merged, counts_files,
                   gtac_counts_file, merged_samplemap_file, df_gtac_counts,
                   df_src_seqcov, df_comp, told>>
    /\ UNCHANGED renameVars
    /\ UNCHANGED jobVars
    /\ UNCHANGED planVars

\* ReadCountsSource.__col_src_end_pair_reads.  A side file holds one line,
\* the read count.
ColSrcEndPairReads ==
    /\ pc = "col_src_end_pair_reads"
    /\ IF \E i \in 1..Len(df_merged) :
            df_merged[i].merged_fastq_path \notin DOMAIN counts_files
       THEN /\ pc' = "failed"
            /\ err' = "FASTQ counts file not found."
            /\ UNCHANGED df_merged
       ELSE /\ df_merged' =
                  [i \in 1..Len(df_merged) |->
                      WithCol(df_merged[i], "src_end_pair_reads",
                              counts_files[df_merged[i].merged_fastq_path])]
            /\ pc' = "col_src_sample_reads"
            /\ err' = ""
    /\ UNCHANGED <<df_smaps, fs, smap_files, prior_plans, samplemap_merged, counts_files,
                   gtac_counts_file, merged_samplemap_file, df_gtac_counts,
                   df_src_seqcov, df_comp, told>>
    /\ UNCHANGED renameVars
    /\ UNCHANGED jobVars
    /\ UNCHANGED planVars

\* the sample_counts the first loop of __col_src_sample_reads computes for
\* one (sample_name, read_number) group; -1 stands for the ValueError
SrcGroupCounts(dfi) ==
    LET reads == Col(dfi, LAMBDA r : r.src_end_pair_reads)
    IN  IF Len(reads) = 1 THEN reads[1] * 2
        ELSE IF Len(reads) = 2 THEN SumSeq(reads)
        ELSE -1

\* count_index after the loop over the (sample_name, read_number) groups,
\* visited in ascending key order: a later group of a sample replaces the
\* entry of an earlier one
SrcCountIndex(df) ==
    LET Group(n, rn) == GetReadNum(GetGroup(df, n), rn)
        after_1 == [n \in {m \in SampleGroups(df) : Group(m, 1) # <<>>} |->
                       SrcGroupCounts(Group(n, 1))]
    IN  [n \in SampleGroups(df) |->
            IF Group(n, 2) # <<>> THEN SrcGroupCounts(Group(n, 2))
            ELSE after_1[n]]

\* the check at the end of __col_src_sample_reads: the failure of the first
\* sample that has one, "" when there is none
SrcCountsCheck(df) ==
    LET Bad(name) ==
            LET dfi == GetRevised(df, name)
                r1  == GetReadNum(dfi, 1)
                r2  == GetReadNum(dfi, 2)
            IN  IF r1 = <<>> THEN "KeyError: 1"
                ELSE IF r2 = <<>> THEN "KeyError: 2"
                ELSE IF FirstOfSet(Col(r1, LAMBDA r : r.src_sample_reads))
                        # FirstOfSet(Col(r2, LAMBDA r : r.src_sample_reads))
                THEN "Source sample counts do not match for R1 & R2."
                ELSE IF FirstOfSet(Col(r1, LAMBDA r : r.src_end_pair_reads))
                        # FirstOfSet(Col(r2, LAMBDA r : r.src_end_pair_reads))
                THEN "Source end pair counts do not match for R1 & R2."
                ELSE ""
        bad == {name \in RevisedGroups(df) : Bad(name) # ""}
    IN  IF bad = {} THEN "" ELSE Bad(SortedNames(bad)[1])

\* ReadCountsSource.__col_src_sample_reads
ColSrcSampleReads ==
    /\ pc = "col_src_sample_reads"
    /\ IF \E n \in SampleGroups(df_merged), rn \in ReadNumbers :
            /\ GetReadNum(GetGroup(df_merged, n), rn) # <<>>
            /\ SrcGroupCounts(GetReadNum(GetGroup(df_merged, n), rn)) = -1
       THEN /\ pc' = "failed"
            /\ err' = "Odd length of reads pairs."
            /\ UNCHANGED df_merged
       ELSE LET count_index == SrcCountIndex(df_merged)
                updated == [i \in 1..Len(df_merged) |->
                               WithCol(df_merged[i], "src_sample_reads",
                                       count_index[df_merged[i].sample_name])]
            IN  /\ df_merged' = updated
                /\ err' = SrcCountsCheck(updated)
                /\ pc' = IF err' = "" THEN "calc_src_read_coverage"
                         ELSE "failed"
    /\ UNCHANGED <<df_smaps, fs, smap_files, prior_plans, samplemap_merged, counts_files,
                   gtac_counts_file, merged_samplemap_file, df_gtac_counts,
                   df_src_seqcov, df_comp, told>>
    /\ UNCHANGED renameVars
    /\ UNCHANGED jobVars
    /\ UNCHANGED planVars

\* one row of the throughput table __calc_src_read_coverage builds
SrcSeqcovRow(df, name) ==
    LET dfi == GetRevised(df, name)
        sample_counts == FirstOfSet(Col(dfi, LAMBDA r : r.src_sample_reads))
        r1_counts == FirstOfSet(Col(GetReadNum(dfi, 1),
                                    LAMBDA r : r.src_end_pair_reads))
        r2_counts == FirstOfSet(Col(GetReadNum(dfi, 2),
                                    LAMBDA r : r.src_end_pair_reads))
    IN  [sample_name          |-> name,
         R1_read_counts       |-> r1_counts,
         R2_read_counts       |-> r2_counts,
         sample_read_counts   |-> sample_counts,
         min_target_perct_cov |-> TargetMinPerct,
         targets              |-> TargetCols(sample_counts, 2, "is_passed_")]

\* ReadCountsSource.__calc_src_read_coverage, with the write of
\* src_read_counts.tsv that follows it in __init__.  The test of the sample
\* count against R1 + R2 is "a == b is False", which python chains into
\* "a == b and b is False": it never raises.
CalcSrcReadCoverage ==
    /\ pc = "calc_src_read_coverage"
    /\ LET names == SortedNames(RevisedGroups(df_merged))
           rows  == [i \in 1..Len(names) |-> SrcSeqcovRow(df_merged, names[i])]
       IN  IF Col(rows, LAMBDA r : r.R1_read_counts)
                # Col(rows, LAMBDA r : r.R2_read_counts)
           THEN /\ pc' = "failed"
                /\ err' = "Read counts differ for R1 and R2 columns."
                /\ UNCHANGED df_src_seqcov
           ELSE /\ df_src_seqcov' = rows
                /\ pc' = "compare_gtac_to_src_counts"
                /\ err' = ""
    /\ UNCHANGED <<df_smaps, fs, smap_files, prior_plans, samplemap_merged, counts_files,
                   gtac_counts_file, merged_samplemap_file, df_gtac_counts,
                   df_merged, df_comp, told>>
    /\ UNCHANGED renameVars
    /\ UNCHANGED jobVars
    /\ UNCHANGED planVars

\* an entry of a count column of the comparison report: NaN (Blank) or the
\* text '<gtac_counts>:<src_counts>'
Blank == [null |-> TRUE, gtac |-> 0, src |-> 0]

CompText(gtac_counts, src_counts) ==
    [null |-> FALSE, gtac |-> gtac_counts, src |-> src_counts]

\* the column labels of a throughput table
Labels(df) ==
    [i \in 1..Len(df) |->
        <<DOMAIN df[i],
          [k \in 1..Len(df[i].targets) |->
              <<df[i].targets[k].perct_label,
                df[i].targets[k].is_passed_label>>]>>]

\* the three lists col_r1_read_counts, col_r2_read_counts and
\* col_sample_read_counts after the loop over the rows of df_eval
CompColumns(df_gtac, df_src) ==
    LET is_r1_same(i) == df_src[i].R1_read_counts = df_gtac[i].R1_read_counts
        is_r2_same(i) == df_src[i].R2_read_counts = df_gtac[i].R2_read_counts
        is_sample_same(i) ==
            df_src[i].sample_read_counts = df_gtac[i].sample_read_counts
        RECURSIVE Loop(_)
        Loop(i) ==
            IF i = 0 THEN [r1 |-> <<>>, r2 |-> <<>>, sample |-> <<>>]
            ELSE LET before == Loop(i - 1)
                 IN  [r1 |-> Append(before.r1,
                            IF ~is_r1_same(i)
                            THEN CompText(df_gtac[i].R1_read_counts,
                                          df_src[i].R1_read_counts)
                            ELSE Blank),
                      r2 |-> Append(before.r2,
                            IF ~is_r2_same(i)
                            THEN CompText(df_gtac[i].R2_read_counts,
                                          df_src[i].R2_read_counts)
                            ELSE Blank),
                      sample |->
                            IF ~is_sample_same(i)
                            THEN Append(before.sample,
                                     CompText(df_gtac[i].sample_read_counts,
                                              df_src[i].sample_read_counts))
                            ELSE IF is_r2_same(i)
                            THEN Append(before.sample, Blank)
                            ELSE before.sample]
    IN  Loop(Len(df_src))

\* IsAllTrue with any() in place of all()
IsAllTrue_Any(gtac_row, src_row) ==
    \/ src_row.R1_read_counts = gtac_row.R1_read_counts
    \/ src_row.R2_read_counts = gtac_row.R2_read_counts
    \/ src_row.sample_read_counts = gtac_row.sample_read_counts

\* is_all_true of one row of df_eval
IsAllTrue(gtac_row, src_row) ==
    /\ src_row.R1_read_counts = gtac_row.R1_read_counts
    /\ src_row.R2_read_counts = gtac_row.R2_read_counts
    /\ src_row.sample_read_counts = gtac_row.sample_read_counts

\* ReadCountsSource.__compare_gtac_to_src_counts, with the write of
\* read_count_comparisons.tsv that follows it in __init__
CompareGtacToSrcCounts ==
    /\ pc = "compare_gtac_to_src_counts"
    /\ IF Labels(df_src_seqcov) # Labels(df_gtac_counts)
       THEN /\ pc' = "failed"
            /\ err' = "Can only compare identically-labeled DataFrame objects"
            /\ UNCHANGED df_comp
       ELSE LET cols == CompColumns(df_gtac_counts, df_src_seqcov)
                n == Len(df_src_seqcov)
                partial == [i \in 1..n |->
                               [sample_name    |-> df_gtac_counts[i].sample_name,
                                R1_read_counts |-> cols.r1[i],
                                R2_read_counts |-> cols.r2[i]]]
            IN  IF Len(cols.sample) # n
                THEN /\ pc' = "failed"
                     /\ err' = "Length of values does not match length of index"
                     /\ df_comp' = partial
                ELSE /\ df_comp' =
                           [i \in 1..n |->
                               WithCol(WithCol(partial[i],
                                   "sample_read_counts", cols.sample[i]),
                                   "is_no_difference",
                                   IsAllTrue(df_gtac_counts[i],
                                             df_src_seqcov[i]))]
                     /\ pc' = "reported"
                     /\ err' = ""
    /\ UNCHANGED <<df_smaps, fs, smap_files, prior_plans, samplemap_merged, counts_files,
                   gtac_counts_file, merged_samplemap_file, df_gtac_counts,
                   df_merged, df_src_seqcov, told>>
    /\ UNCHANGED renameVars
    /\ UNCHANGED jobVars
    /\ UNCHANGED planVars

\* ReadCountsSource.tell_comp_differences: what it prints
\* TellCompDifferences loading the provider counts again
TellCompDifferences_Reload ==
    /\ pc = "reported"
    /\ told' = <<>>
    /\ pc' = "populate_gtac_df"
    /\ err' = ""
    /\ UNCHANGED <<df_smaps, fs, smap_files, prior_plans, samplemap_merged, counts_files,
                   gtac_counts_file, merged_samplemap_file, df_gtac_counts,
                   df_merged, df_src_seqcov, df_comp>>
    /\ UNCHANGED renameVars
    /\ UNCHANGED jobVars
    /\ UNCHANGED planVars

TellCompDifferences ==
    /\ pc = "reported"
    /\ told' = IF \A i \in 1..Len(df_comp) : df_comp[i].is_no_difference
               THEN <<[finished |-> "There are no differences between the GTAC and source read counts.",
                       names    |-> <<>>]>>
               ELSE LET Test(r) == r.is_no_difference = FALSE
                    IN  <<[finished |-> "Differences detected between the GTAC and source read counts.",
                           names    |-> Col(Rows(df_comp, Test),
                                            LAMBDA r : r.sample_name)]>>
    /\ pc' = "told"
    /\ err' = ""
    /\ UNCHANGED <<df_smaps, fs, smap_files, prior_plans, samplemap_merged, counts_files,
                   gtac_counts_file, merged_samplemap_file, df_gtac_counts,
                   df_merged, df_src_seqcov, df_comp>>
    /\ UNCHANGED renameVars
    /\ UNCHANGED jobVars
    /\ UNCHANGED planVars

(***************************************************************************)
(* A run of the reconciler, ReadCountsSource(args) followed by             *)
(* tell_comp_differences(), on the table MergeFastq wrote, the side files  *)
(* the jobs left and a provider-side table of the same shape.              *)
(***************************************************************************)
\* the rows MergeFastq wrote for a sample with n1 R1 files and n2 R2 files
MergedRows(sample_name, n1, n2) ==
    LET Row(rn, lane) ==
            WithCol(MkRow(sample_name, FlowCells[1], lane, rn, 1),
                    "merged_fastq_path",
                    DestFq(sample_name, RevisedName(sample_name), EndTag(rn)))
    IN  [i \in 1..n1 |-> Row(1, i)] \o [i \in 1..n2 |-> Row(2, i)]

\* one row of the provider-side throughput table
GtacRow(sample_name, r1_counts, r2_counts, sample_counts) ==
    [sample_name          |-> RevisedName(sample_name),
     R1_read_counts       |-> r1_counts,
     R2_read_counts       |-> r2_counts,
     sample_read_counts   |-> sample_counts,
     min_target_perct_cov |-> TargetMinPerct,
     targets              |-> TargetCols(sample_counts, 1, "is_passed_")]

\* the side files of a sample: a function from the artifacts that have one
\* to the count it holds; 0 stands for no side file
SideFiles(sample_name, c1, c2) ==
    LET d1 == DestFq(sample_name, RevisedName(sample_name), "R1")
        d2 == DestFq(sample_name, RevisedName(sample_name), "R2")
    IN  [d \in (IF c1 = 0 THEN {} ELSE {d1}) \cup (IF c2 = 0 THEN {} ELSE {d2})
            |-> IF d = d1 THEN c1 ELSE c2]

InitRecon ==
    /\ pc = "populate_gtac_df"
    /\ err = ""
    /\ \E n1, n2 \in 1..MaxGroup, c1, c2 \in 0..MaxReads,
          p1, p2 \in 1..MaxReads, ps \in 1..(2 * MaxReads) :
         \/ /\ merged_samplemap_file = MergedRows(SampleOrder[1], n1, n2)
            /\ counts_files = SideFiles(SampleOrder[1], c1, c2)
            /\ gtac_counts_file = <<GtacRow(SampleOrder[1], p1, p2, ps)>>
         \/ \E qs \in 1..2 :
            /\ merged_samplemap_file =
                   MergedRows(SampleOrder[1], n1, n2)
                   \o MergedRows(SampleOrder[2], 1, 1)
            /\ counts_files = SideFiles(SampleOrder[1], c1, c2)
                              @@ SideFiles(SampleOrder[2], 1, 1)
            /\ gtac_counts_file = <<GtacRow(SampleOrder[1], p1, p2, ps),
                                    GtacRow(SampleOrder[2], 1, 1, qs)>>
    /\ df_gtac_counts = <<>>
    /\ df_merged = <<>>
    /\ df_src_seqcov = <<>>
    /\ df_comp = <<>>
    /\ told = <<>>
    /\ rename_columns = RenameFields
    /\ rename_df = <<>>
    /\ df_smaps = <<>>
    /\ fs = EmptyMap
    /\ samplemap_merged = <<>>
    /\ single_copy_ids = {}
    /\ merge_copy_ids = {}
    /\ copy_todo = {}
    /\ merge_todo = {}
    /\ dest_fq_index = EmptyMap
    /\ copy_cmds = <<>>
    /\ merge_cmds = <<>>
    /\ smap_files = <<>>
    /\ prior_plans = <<>>
    /\ all_jobs = <<>>
    /\ launched = <<>>
    /\ dirs = {}

NextRecon ==
    \/ PopulateGtacDf
    \/ PopulateMergedDf
    \/ ColSrcEndPairReads
    \/ ColSrcSampleReads
    \/ CalcSrcReadCoverage
    \/ CompareGtacToSrcCounts
    \/ TellCompDifferences

SpecRecon == InitRecon /\ [][NextRecon]_vars

(***************************************************************************)
(* The throughput tables of one project: ReadCountsGtac grades the table   *)
(* MergeFastq wrote and writes gtac_read_counts.tsv, the jobs leave their  *)
(* side files, and ReadCountsSource is given that file as --gtac-counts.   *)
(***************************************************************************)
\* one row of the table calc_gtac_read_coverage builds
GtacSeqcovRow(df, name) ==
    LET dfi == GetRevised(df, name)
        sample_counts == FirstOfSet(Col(dfi, LAMBDA r : r.gtac_sample_reads))
        r1_counts == FirstOfSet(Col(GetReadNum(dfi, 1),
                                    LAMBDA r : r.gtac_end_pair_reads))
        r2_counts == FirstOfSet(Col(GetReadNum(dfi, 2),
                                    LAMBDA r : r.gtac_end_pair_reads))
    IN  [sample_name          |-> name,
         R1_read_counts       |-> r1_counts,
         R2_read_counts       |-> r2_counts,
         sample_read_counts   |-> sample_counts,
         min_target_perct_cov |-> TargetMinPerct,
         targets              |-> TargetCols(sample_counts, 1, "is_pased_")]

\* ReadCountsGtac.calc_gtac_read_coverage followed by write_df to
\* gtac_read_counts.tsv.  The test of the sample count against R1 + R2 is
\* "a == b is False": it never raises.
CalcGtacReadCoverage ==
    /\ pc = "calc_gtac_read_coverage"
    /\ LET names == SortedNames(RevisedGroups(merged_samplemap_file))
           rows  == [i \in 1..Len(names) |->
                        GtacSeqcovRow(merged_samplemap_file, names[i])]
       IN  IF Col(rows, LAMBDA r : r.R1_read_counts)
                # Col(rows, LAMBDA r : r.R2_read_counts)
           THEN /\ pc' = "failed"
                /\ err' = "Read counts differ for R1 and R2 columns."
                /\ UNCHANGED gtac_counts_file
           ELSE /\ gtac_counts_file' = rows
                /\ pc' = "populate_gtac_df"
                /\ err' = ""
    /\ UNCHANGED <<df_smaps, fs, smap_files, prior_plans, samplemap_merged, counts_files,
                   merged_samplemap_file, df_gtac_counts, df_merged,
                   df_src_seqcov, df_comp, told>>
    /\ UNCHANGED renameVars
    /\ UNCHANGED jobVars
    /\ UNCHANGED planVars

\* the read counts of the FASTQ files of a graded project: a few reads, and
\* the count that puts a sample of one file per read end at the minimum
\* percent of the least target
ThroughputCounts ==
    {10 * k : k \in 1..MaxReads}
    \cup {(TargetCounts[1] * TargetMinPerct) \div 200}

\* the table MergeFastq.write_df wrote for a sample with n R1 files and n R2
\* files of the given provider read count each
WrittenRows(sample_name, n, reads) ==
    LET Row(rn, lane) ==
            WithCol(MkRow(sample_name, FlowCells[1], lane, rn, reads),
                    "merged_fastq_path",
                    DestFq(sample_name, RevisedName(sample_name), EndTag(rn)))
        df == [i \in 1..n |-> Row(1, i)] \o [i \in 1..n |-> Row(2, i)]
    IN  [i \in 1..Len(df) |->
            WithCol(WithCol(df[i], "gtac_end_pair_reads",
                            CountIndex(df)[sample_name]),
                    "gtac_sample_reads", CountIndex(df)[sample_name] * 2)]

InitThroughput ==
    /\ pc = "calc_gtac_read_coverage"
    /\ err = ""
    /\ \E n \in 1..2, reads \in ThroughputCounts, c \in ThroughputCounts :
         \/ /\ merged_samplemap_file = WrittenRows(SampleOrder[1], n, reads)
            /\ counts_files = SideFiles(SampleOrder[1], c, c)
         \/ \E reads_2 \in ThroughputCounts :
            /\ merged_samplemap_file =
                   WrittenRows(SampleOrder[1], n, reads)
                   \o WrittenRows(SampleOrder[2], 1, reads_2)
            /\ counts_files = SideFiles(SampleOrder[1], c, c)
                              @@ SideFiles(SampleOrder[2], reads_2, reads_2)
    /\ gtac_counts_file = <<>>
    /\ df_gtac_counts = <<>>
    /\ df_merged = <<>>
    /\ df_src_seqcov = <<>>
    /\ df_comp = <<>>
    /\ told = <<>>
    /\ rename_columns = RenameFields
    /\ rename_df = <<>>
    /\ df_smaps = <<>>
    /\ fs = EmptyMap
    /\ samplemap_merged = <<>>
    /\ single_copy_ids = {}
    /\ merge_copy_ids = {}
    /\ copy_todo = {}
    /\ merge_todo = {}
    /\ dest_fq_index = EmptyMap
    /\ copy_cmds = <<>>
    /\ merge_cmds = <<>>
    /\ smap_files = <<>>
    /\ prior_plans = <<>>
    /\ all_jobs = <<>>
    /\ launched = <<>>
    /\ dirs = {}

NextThroughput ==
    \/ CalcGtacReadCoverage
    \/ PopulateGtacDf
    \/ PopulateMergedDf
    \/ ColSrcEndPairReads
    \/ ColSrcSampleReads
    \/ CalcSrcReadCoverage
    \/ CompareGtacToSrcCounts

SpecThroughput == InitThroughput /\ [][NextThroughput]_vars

(***************************************************************************)
(* The grading of a merged table handed to ReadCountsGtac by path: a       *)
(* tab-delimited file with the columns MergeFastq writes, whose provider   *)
(* count columns hold whatever the file holds.                             *)
(***************************************************************************)
\* the rows of a merged table for a sample with n R1 files and n R2 files,
\* holding the given end-pair and sample counts
GivenRows(sample_name, n, end_pair_reads, sample_reads) ==
    LET Row(rn, lane) ==
            WithCol(MkRow(sample_name, FlowCells[1], lane, rn, 1),
                    "merged_fastq_path",
                    DestFq(sample_name, RevisedName(sample_name), EndTag(rn)))
        df == [i \in 1..n |-> Row(1, i)] \o [i \in 1..n |-> Row(2, i)]
    IN  [i \in 1..Len(df) |->
            WithCol(WithCol(df[i], "gtac_end_pair_reads", end_pair_reads),
                    "gtac_sample_reads", sample_reads)]

InitGraded ==
    /\ pc = "calc_gtac_read_coverage"
    /\ err = ""
    /\ \E n \in 1..2, e \in 1..MaxReads, t \in 1..(2 * MaxReads),
          c \in 1..MaxReads :
         \/ /\ merged_samplemap_file = GivenRows(SampleOrder[1], n, e, t)
            /\ counts_files = SideFiles(SampleOrder[1], c, c)
         \/ \E e_2 \in 1..MaxReads, t_2 \in 1..(2 * MaxReads) :
            /\ merged_samplemap_file =
                   GivenRows(SampleOrder[1], n, e, t)
                   \o GivenRows(SampleOrder[2], 1, e_2, t_2)
            /\ counts_files = SideFiles(SampleOrder[1], c, c)
                              @@ SideFiles(SampleOrder[2], e_2, e_2)
    /\ gtac_counts_file = <<>>
    /\ df_gtac_counts = <<>>
    /\ df_merged = <<>>
    /\ df_src_seqcov = <<>>
    /\ df_comp = <<>>
    /\ told = <<>>
    /\ rename_columns = RenameFields
    /\ rename_df = <<>>
    /\ df_smaps = <<>>
    /\ fs = EmptyMap
    /\ samplemap_merged = <<>>
    /\ single_copy_ids = {}
    /\ merge_copy_ids = {}
    /\ copy_todo = {}
    /\ merge_todo = {}
    /\ dest_fq_index = EmptyMap
    /\ copy_cmds = <<>>
    /\ merge_cmds = <<>>
    /\ smap_files = <<>>
    /\ prior_plans = <<>>
    /\ all_jobs = <<>>
    /\ launched = <<>>
    /\ dirs = {}

NextGraded ==
    \/ CalcGtacReadCoverage
    \/ PopulateGtacDf
    \/ PopulateMergedDf
    \/ ColSrcEndPairReads
    \/ ColSrcSampleReads
    \/ CalcSrcReadCoverage
    \/ CompareGtacToSrcCounts

SpecGraded == InitGraded /\ [][NextGraded]_vars

(***************************************************************************)
(* Properties of the consolidation planner, under SpecMerge.               *)
(***************************************************************************)
\* the (flow_cell_id, lane_number) keys of one read end of a sample, sorted
KeySeq(sample_name, read_number) ==
    Col(SortedReadNum(sample_name, read_number), SortKey)

\* the concatenation list of a command list
CatSrc(cmds) == (CHOOSE c \in Range(cmds) : c.op = "cat").src

\* a concatenation list is in ascending (flow_cell_id, lane_number) order
Ascending(src) ==
    \A i, j \in 1..Len(src) :
        i < j => \/ FcRank(src[i].fc) < FcRank(src[j].fc)
                 \/ src[i].fc = src[j].fc /\ src[i].lane <= src[j].lane

\* C1: a Consolidate group whose sorted R1 keys and sorted R2 keys are not
\* the same sequence is given no plan: its construction fails with
\* 'Merge-samples sort order was not maintained.'
C1_OrderingViolationRaised ==
    \A n \in merge_copy_ids :
        KeySeq(n, 1) # KeySeq(n, 2) =>
            /\ n \notin CmdKeys(merge_cmds)
            /\ (n \notin merge_todo =>
                    err = "Merge-samples sort order was not maintained.")

\* C2: in every Consolidate plan the R1 and the R2 concatenation lists have
\* the same length, the sources at each position have the same
\* (flow_cell_id, lane_number), and both lists are in ascending key order.
C2_PairedCatOrder ==
    \A k \in 1..Len(merge_cmds) :
        LET r1 == CatSrc(merge_cmds[k].r1)
            r2 == CatSrc(merge_cmds[k].r2)
        IN  /\ Len(r1) = Len(r2)
            /\ \A i \in 1..Len(r1) :
                   i <= Len(r2) => /\ r1[i].fc = r2[i].fc
                                   /\ r1[i].lane = r2[i].lane
            /\ Ascending(r1)
            /\ Ascending(r2)

\* classification has run and succeeded
Classified ==
    /\ pc # "parse_fastq_copy_types"
    /\ err # "FASTQ copy type counts differ."

\* C3: classification is a partition of the sample groups into
\* single_copy_ids and merge_copy_ids; a group is in single_copy_ids if and
\* only if it has exactly one distinct flow cell and exactly two records.
C3_ClassificationPartition ==
    Classified =>
        LET groups == {df_smaps[i].sample_name : i \in 1..Len(df_smaps)}
            RowsIn(n) == {i \in 1..Len(df_smaps) : df_smaps[i].sample_name = n}
            Cells(n) == {df_smaps[i].flow_cell_id : i \in RowsIn(n)}
        IN  /\ single_copy_ids \cup merge_copy_ids = groups
            /\ single_copy_ids \cap merge_copy_ids = {}
            /\ Cardinality(single_copy_ids) + Cardinality(merge_copy_ids)
                   = Cardinality(groups)
            /\ \A n \in groups :
                   n \in single_copy_ids <=>
                       (Cardinality(Cells(n)) = 1
                        /\ Cardinality(RowsIn(n)) = 2)

\* a table with one Passthrough and one Consolidate sample was classified
C3_Witness ==
    /\ Classified
    /\ single_copy_ids # {}
    /\ merge_copy_ids # {}

\* the table counts have been derived
CountsDerived ==
    /\ samplemap_merged # <<>>
    /\ \A i \in 1..Len(samplemap_merged) :
           "gtac_end_pair_reads" \in DOMAIN samplemap_merged[i]

\* C6: after table-count derivation every row's gtac_end_pair_reads is the
\* sum of the provider read counts of the records of its sample and read
\* end, and its gtac_sample_reads is twice its gtac_end_pair_reads.
C6_TableCountsPerReadEnd ==
    CountsDerived =>
        \A i \in 1..Len(samplemap_merged) :
            LET r == samplemap_merged[i]
                same == {j \in 1..Len(df_smaps) :
                            /\ df_smaps[j].sample_name = r.sample_name
                            /\ df_smaps[j].read_number = r.read_number}
                RECURSIVE Sum(_)
                Sum(S) == IF S = {} THEN 0
                          ELSE LET j == CHOOSE x \in S : TRUE
                               IN  df_smaps[j].gtac_fastq_reads + Sum(S \ {j})
            IN  /\ r.gtac_end_pair_reads = Sum(same)
                /\ r.gtac_sample_reads = 2 * r.gtac_end_pair_reads

\* C7: table-count derivation does not complete for a table in which the
\* summed provider read counts of some sample's R1 records and R2 records
\* differ: it raises 'GTAC end pair counts do not match for R1 & R2.'
C7_EndPairEqualityValidated ==
    \A n \in SampleGroups(df_smaps) :
        GroupSum(df_smaps, n, 1) # GroupSum(df_smaps, n, 2) =>
            /\ pc # "merged"
            /\ (CountsDerived =>
                    err = "GTAC end pair counts do not match for R1 & R2.")

(***************************************************************************)
(* Properties of the identity map, under SpecIdentity.                     *)
(***************************************************************************)
RenameErrors ==
    {"Input file column names are incorrect.",
     "Input file contains no values.",
     "The samplemap_sample_id column values are not unique.",
     "The revised_sample_id column values are not unique.",
     "Samplemap to revised id is not one-to-one."}

\* RenameSamples(args) has returned an identity map
RenameConstructed ==
    /\ pc # "rename_populate_df"
    /\ ~(pc = "failed" /\ err \in RenameErrors)

\* C4: the construction of the identity map fails when the original-id or
\* the revised-id column holds a value twice; in every map constructed each
\* original id and each revised id belongs to exactly one row.
C4_IdentityMapBijective ==
    LET Twice(Get(_)) ==
            \E i, j \in 1..Len(rename_df) :
                i # j /\ Get(rename_df[i]) = Get(rename_df[j])
                      /\ Get(rename_df[i]) # NaN
    IN  /\ (pc # "rename_populate_df"
            /\ (Twice(LAMBDA r : r.samplemap_sample_id)
                \/ Twice(LAMBDA r : r.revised_sample_id)))
           => (pc = "failed" /\ err \in RenameErrors)
        /\ RenameConstructed =>
               \A i \in 1..Len(rename_df) :
                   /\ Cardinality({j \in 1..Len(rename_df) :
                          rename_df[j].samplemap_sample_id
                              = rename_df[i].samplemap_sample_id}) = 1
                   /\ rename_df[i].revised_sample_id # NaN =>
                          Cardinality({j \in 1..Len(rename_df) :
                              rename_df[j].revised_sample_id
                                  = rename_df[i].revised_sample_id}) = 1

\* an identity map of two rows or more was constructed
C4_Witness ==
    /\ RenameConstructed
    /\ Len(rename_df) >= 2

\* C5: when the normalizer succeeds every row's revised_sample_name is the
\* revised id the map gives the row's sample_name, and it is not null; so a
\* table with a sample the map lacks or maps to null does not succeed.
C5_MappingApplied ==
    pc = "normalized" =>
        \A i \in 1..Len(df_smaps) :
            \E k \in 1..Len(rename_df) :
                /\ rename_df[k].samplemap_sample_id = df_smaps[i].sample_name
                /\ rename_df[k].revised_sample_id # NaN
                /\ df_smaps[i].revised_sample_name
                       = rename_df[k].revised_sample_id

\* a table of two samples was annotated
C5_Witness ==
    /\ pc = "normalized"
    /\ Cardinality(SampleGroups(df_smaps)) = 2
    /\ \A i \in 1..Len(df_smaps) :
           "revised_sample_name" \in DOMAIN df_smaps[i]

(***************************************************************************)
(* Properties of the reconciler, under SpecRecon.                          *)
(***************************************************************************)
\* every produced artifact has its count side file
AllSideFiles ==
    \A i \in 1..Len(merged_samplemap_file) :
        merged_samplemap_file[i].merged_fastq_path \in DOMAIN counts_files

\* C8: with every side file present the reconciler never fails, whatever
\* the counts are, and the report it writes has one row per sample.
C8_MismatchNeverFatal ==
    AllSideFiles =>
        /\ pc # "failed"
        /\ pc \in {"reported", "told"} =>
               Col(df_comp, LAMBDA r : r.sample_name)
                   = SortedNames(RevisedGroups(merged_samplemap_file))

\* the entry the report must hold for a field
Expected(gtac_counts, src_counts) ==
    IF gtac_counts = src_counts THEN Blank
    ELSE CompText(gtac_counts, src_counts)

\* C9: once the comparison has filled the report, every row holds one entry
\* for each of R1_read_counts, R2_read_counts and sample_read_counts:
\* '<provider>:<source>' when the two values differ and null when they are
\* equal.
C9_OneEntryPerField ==
    df_comp # <<>> =>
        /\ Len(df_comp) = Len(df_src_seqcov)
        /\ \A i \in 1..Len(df_comp) :
               /\ df_comp[i].R1_read_counts
                      = Expected(df_gtac_counts[i].R1_read_counts,
                                 df_src_seqcov[i].R1_read_counts)
               /\ df_comp[i].R2_read_counts
                      = Expected(df_gtac_counts[i].R2_read_counts,
                                 df_src_seqcov[i].R2_read_counts)
               /\ "sample_read_counts" \in DOMAIN df_comp[i]
               /\ df_comp[i].sample_read_counts
                      = Expected(df_gtac_counts[i].sample_read_counts,
                                 df_src_seqcov[i].sample_read_counts)

\* C10: is_no_difference of a sample is true if and only if the provider
\* and the recount values agree in R1_read_counts, R2_read_counts and
\* sample_read_counts; the summary names exactly the samples whose
\* is_no_difference is false, in report order, and says there are no
\* differences if and only if there is no such sample.
C10_NoDifferenceFlag ==
    /\ pc \in {"reported", "told"} =>
           \A i \in 1..Len(df_comp) :
               df_comp[i].is_no_difference <=>
                   /\ df_gtac_counts[i].R1_read_counts
                          = df_src_seqcov[i].R1_read_counts
                   /\ df_gtac_counts[i].R2_read_counts
                          = df_src_seqcov[i].R2_read_counts
                   /\ df_gtac_counts[i].sample_read_counts
                          = df_src_seqcov[i].sample_read_counts
    /\ pc = "told" =>
           LET differ == {i \in 1..Len(df_comp) :
                             ~df_comp[i].is_no_difference}
           IN  /\ Range(told[1].names) = {df_comp[i].sample_name : i \in differ}
               /\ Len(told[1].names) = Cardinality(differ)
               /\ (told[1].finished = "There are no differences between the GTAC and source read counts.")
                      <=> differ = {}

\* the summary was printed for a report with a sample that differs and a
\* sample that does not
C10_Witness ==
    /\ pc = "told"
    /\ \E i, j \in 1..Len(df_comp) :
           df_comp[i].is_no_difference /\ ~df_comp[j].is_no_difference

(***************************************************************************)
(* Properties of the throughput tables, under SpecThroughput.              *)
(***************************************************************************)
\* the percent/pass pairs of a row are those of its sample_read_counts: one
\* pair per target, in ascending target order, the percent (in hundredths)
\* being (sample_read_counts / target) * 100 rounded to 2 decimals and the
\* flag telling whether the percent reaches the minimum percent
GradedBySampleCount(row) ==
    /\ Len(row.targets) = Len(TargetCounts)
    /\ \A k \in 1..Len(row.targets) :
           /\ row.targets[k].perct_label[2] = TargetCounts[k]
           /\ row.targets[k].is_passed_label[2] = TargetCounts[k]
           /\ k > 1 => TargetCounts[k - 1] < TargetCounts[k]
           /\ row.targets[k].perct_of_target
                  = RoundHalfEven(row.sample_read_counts * 10000,
                                  TargetCounts[k])
           /\ row.targets[k].is_passed
                  <=> row.targets[k].perct_of_target >= 80 * 100

\* C11: in the provider-derived and in the recount-derived throughput table
\* every percent column is (sample_read_counts / T) * 100 rounded to 2
\* decimals, every pass flag is true iff that percent is at least 80, and
\* there is one pair per threshold in ascending threshold order.
C11_PercentOfSampleCount ==
    /\ \A i \in 1..Len(gtac_counts_file) :
           GradedBySampleCount(gtac_counts_file[i])
    /\ \A i \in 1..Len(df_src_seqcov) :
           GradedBySampleCount(df_src_seqcov[i])

\* C12: the provider-side table ReadCountsGtac wrote and the recount-side
\* table have the same ordered column labels and the same samples in the
\* same order, so their comparison is defined.
C12_SameShape ==
    /\ (gtac_counts_file # <<>> /\ df_src_seqcov # <<>>) =>
           /\ Labels(gtac_counts_file) = Labels(df_src_seqcov)
           /\ Col(gtac_counts_file, LAMBDA r : r.sample_name)
                  = Col(df_src_seqcov, LAMBDA r : r.sample_name)
    /\ err # "Can only compare identically-labeled DataFrame objects"

(***************************************************************************)
(* Properties of the destination index and of post-processing, under       *)
(* SpecMerge.                                                              *)
(***************************************************************************)
\* __setup_copy_cmds and __setup_merge_cmds have returned
Planned ==
    pc \in {"update_df_cmds", "update_df_dest_fq", "update_df_read_counts",
            "merged"}

\* C13: after successful planning dest_fq_index has exactly one entry, an R1
\* and an R2 path, for every original sample name and no other key; and no
\* step ever removes or replaces an entry the index already holds.
C13_DestinationIndexWriteOnce ==
    /\ [](Planned =>
            /\ DOMAIN dest_fq_index
                   = {df_smaps[i].sample_name : i \in 1..Len(df_smaps)}
            /\ \A k \in DOMAIN dest_fq_index :
                   /\ DOMAIN dest_fq_index[k] = {"R1", "R2"}
                   /\ dest_fq_index[k].R1.end = "R1"
                   /\ dest_fq_index[k].R2.end = "R2"
                   /\ dest_fq_index[k].R1.dir = k
                   /\ dest_fq_index[k].R2.dir = k)
    /\ [][\A k \in DOMAIN dest_fq_index :
              /\ k \in DOMAIN dest_fq_index'
              /\ dest_fq_index'[k] = dest_fq_index[k]]_vars

\* the plans of a table of two samples were built
C13_Witness ==
    /\ Planned
    /\ Cardinality(DOMAIN dest_fq_index) = 2

\* __update_df_cmds and __update_df_dest_fq have returned
PostProcessed == pc \in {"update_df_read_counts", "merged"}

\* the step list of the plan that owns a sample, for one read end
PlanSteps(sample_name, read_number) ==
    LET plans == IF sample_name \in single_copy_ids THEN copy_cmds
                 ELSE merge_cmds
        k == CHOOSE i \in 1..Len(plans) : plans[i].sample_name = sample_name
    IN  IF read_number = 1 THEN plans[k].r1 ELSE plans[k].r2

\* C14: after post-processing the table has its rows unchanged in number,
\* every row's sample is in a plan and in dest_fq_index, its
\* merged_fastq_path is dest_fq_index[sample_name][read end] and its
\* merged_commands is the step list of the plan of its sample for its read
\* end.
C14_PostProcessedColumns ==
    PostProcessed =>
        /\ Len(samplemap_merged) = Len(df_smaps)
        /\ \A i \in 1..Len(samplemap_merged) :
               LET r == samplemap_merged[i]
               IN  /\ r.sample_name = df_smaps[i].sample_name
                   /\ r.read_number = df_smaps[i].read_number
                   /\ r.sample_name \in DOMAIN dest_fq_index
                   /\ r.sample_name \in
                          CmdKeys(copy_cmds) \cup CmdKeys(merge_cmds)
                   /\ r.merged_fastq_path
                          = IF r.read_number = 1
                            THEN dest_fq_index[r.sample_name].R1
                            ELSE dest_fq_index[r.sample_name].R2
                   /\ r.merged_commands
                          = PlanSteps(r.sample_name, r.read_number)

\* a table with a copied sample and a consolidated sample was
\* post-processed
C14_Witness ==
    /\ PostProcessed
    /\ \E i, j \in 1..Len(samplemap_merged) :
           /\ samplemap_merged[i].sample_name \in single_copy_ids
           /\ samplemap_merged[j].sample_name \in merge_copy_ids
           /\ samplemap_merged[j].read_number = 2

(***************************************************************************)
(* Claims about normalization and the order of the pipeline                *)
(***************************************************************************)
\* the rows of all Samplemap.csv files, in the order of their concatenation
RECURSIVE CsvRowsFrom(_, _)
CsvRowsFrom(files, i) ==
    IF i > Len(files) THEN <<>>
    ELSE files[i].rows \o CsvRowsFrom(files, i + 1)

\* the read end a tag names when its letters are read in either case, 0 for
\* a name with no tag
TagEnd(tag) ==
    IF Upper(tag) = "_R1_" THEN 1 ELSE IF Upper(tag) = "_R2_" THEN 2 ELSE 0

TagErrors ==
    {"Read-pair number tag is None.", "Read-pair number tag is not R1 or R2."}

\* __parse_samplemaps has run on files of the known name and format
ParsedKnownFormat ==
    /\ pc \notin {"rename_populate_df", "parse_samplemaps"}
    /\ err \notin RenameErrors
    /\ smap_files # <<>>
    /\ \A i \in 1..Len(smap_files) : TypeSamplemapFormat(smap_files[i]) = ""

\* C15: the read end of a row is the _R1_/_R2_ tag of its FASTQ name read
\* case-insensitively ('_R1_' or '_r1_' gives R1, '_R2_' or '_r2_' gives
\* R2); parsing fails on a tag error exactly when some name has no tag
C15_CaseInsensitiveReadEnd ==
    ParsedKnownFormat =>
        LET rows == CsvRowsFrom(smap_files, 1)
        IN  IF \E k \in 1..Len(rows) : TagEnd(rows[k].FASTQ.tag) = 0
            THEN pc = "failed" /\ err \in TagErrors
            ELSE /\ err \notin TagErrors
                 /\ Len(df_smaps) = Len(rows)
                 /\ \A k \in 1..Len(rows) :
                       df_smaps[k].read_number = TagEnd(rows[k].FASTQ.tag)

\* the position in args.samplemap of the file that holds row k of the rows
\* concatenated from file i on
RECURSIVE FileOfRow(_, _, _)
FileOfRow(files, i, k) ==
    IF k <= Len(files[i].rows) THEN i
    ELSE FileOfRow(files, i + 1, k - Len(files[i].rows))

\* the positions of the files that list a sample
FilesOfSample(files, sample_name) ==
    {i \in 1..Len(files) :
        \E k \in 1..Len(files[i].rows) :
            files[i].rows[k].Library_Name = sample_name}

\* Samplemap(args, rename) has returned its table
SamplemapReturned == pc = "normalized" \/ samplemap_merged # <<>>

\* C16: the files are batches 1, 2, ... in input order and every row carries
\* the number of its file; a sample listed in more than one file makes
\* normalization fail, so every table returned has each sample under exactly
\* one batch_id
C16_OneBatchPerSample ==
    /\ (ParsedKnownFormat /\ err \notin TagErrors) =>
          /\ Len(df_smaps) = Len(CsvRowsFrom(smap_files, 1))
          /\ \A k \in 1..Len(df_smaps) :
                df_smaps[k].batch_id = FileOfRow(smap_files, 1, k)
          /\ (\E n \in SampleNames :
                 Cardinality(FilesOfSample(smap_files, n)) > 1)
             => (pc = "failed"
                 /\ err = "Sample exists across multiple batches.")
    /\ SamplemapReturned =>
          \A n \in SampleGroups(df_smaps) :
              Cardinality({df_smaps[k].batch_id :
                              k \in {j \in 1..Len(df_smaps) :
                                        df_smaps[j].sample_name = n}}) = 1

\* a table of two batches is returned
C16_Witness ==
    /\ pc = "normalized"
    /\ {df_smaps[k].batch_id : k \in 1..Len(df_smaps)} = {1, 2}

\* the index sequences the Samplemap.csv files give for a sample
IndexesOfSample(files, sample_name) ==
    LET rows == CsvRowsFrom(files, 1)
    IN  {rows[k].Index_Sequence :
            k \in {j \in 1..Len(rows) : rows[j].Library_Name = sample_name}}

\* no sample is classified and no plan exists
NoPlan ==
    /\ samplemap_merged = <<>>
    /\ single_copy_ids = {}
    /\ merge_copy_ids = {}
    /\ dest_fq_index = EmptyMap
    /\ copy_cmds = <<>>
    /\ merge_cmds = <<>>

\* C17: in every table Samplemap returns all rows of a sample share one
\* index_sequence; a sample with two or more index sequences makes
\* normalization fail before any plan is built
C17_OneIndexPerSample ==
    /\ SamplemapReturned =>
          \A n \in SampleGroups(df_smaps) :
              Cardinality({df_smaps[k].index_sequence :
                              k \in {j \in 1..Len(df_smaps) :
                                        df_smaps[j].sample_name = n}}) = 1
    /\ (/\ df_smaps # <<>>
        /\ pc # "eval_smap_seq_indexes"
        /\ err # "Sample exists across multiple batches."
        /\ \E n \in SampleNames :
               Cardinality(IndexesOfSample(smap_files, n)) > 1)
       => (/\ pc = "failed"
           /\ err = "Bad sample id to sequence index cardinality."
           /\ NoPlan)

\* a sample listed with two index sequences has stopped normalization
C17_Witness ==
    /\ pc = "failed"
    /\ err = "Bad sample id to sequence index cardinality."
    /\ \E n \in SampleNames : IndexesOfSample(smap_files, n) = IndexSequences
    /\ NoPlan

(***************************************************************************)
(* Claims about the order of the reconciler's stages                       *)
(***************************************************************************)
\* the stages the reconciler has completed when it is about to run a method:
\* 1 provider counts loaded, 2 table counts loaded, 3 recount counts loaded,
\* 4 cross-validated, 5 reported
StagesDone(at) ==
    CASE at = "populate_gtac_df"           -> 0
      [] at = "populate_merged_df"         -> 1
      [] at = "col_src_end_pair_reads"     -> 2
      [] at = "col_src_sample_reads"       -> 2
      [] at = "calc_src_read_coverage"     -> 3
      [] at = "compare_gtac_to_src_counts" -> 3
      [] OTHER                             -> 5

\* C18: the reconciler's stages happen in the order provider counts loaded,
\* table counts loaded, recount counts loaded, cross-validated, reported;
\* no step goes back to a stage or enters one before its predecessor is
\* complete, each table is written in its own stage only, and once reported
\* (tell_comp_differences included) no table of the reconciler changes
C18_StagesInOrder ==
    [][/\ pc # "failed"
       /\ pc' # "failed" =>
             /\ StagesDone(pc') >= StagesDone(pc)
             /\ StagesDone(pc') <= StagesDone(pc) + 1
                \/ pc = "compare_gtac_to_src_counts"
       /\ df_gtac_counts' # df_gtac_counts => StagesDone(pc) = 0
       /\ df_merged' # df_merged => StagesDone(pc) \in {1, 2}
       /\ df_src_seqcov' # df_src_seqcov => pc = "calc_src_read_coverage"
       /\ df_comp' # df_comp => pc = "compare_gtac_to_src_counts"
       /\ pc \in {"reported", "told"} =>
             /\ pc' = "told"
             /\ UNCHANGED <<df_gtac_counts, df_merged, df_src_seqcov, df_comp,
                            counts_files, gtac_counts_file,
                            merged_samplemap_file>>]_vars

\* tell_comp_differences has run on a reported comparison
C18_Witness ==
    /\ pc = "told"
    /\ told # <<>>
    /\ df_comp # <<>>
    /\ df_src_seqcov # <<>>

\* the original ids of the --rename file, as a list
OriginalIds == Col(rename_df, LAMBDA r : r.samplemap_sample_id)

\* the revised ids of the --rename file, as a list
RevisedIdList == Col(rename_df, LAMBDA r : r.revised_sample_id)

\* the inputs pass every check of identity-map validation and of metadata
\* normalization: a bijective map without nulls, files of the known name and
\* format whose FASTQ names carry a read tag, no sample in two batches or
\* with two index sequences, and the samples of the files are those of the
\* map
InputsValid ==
    LET rows == CsvRowsFrom(smap_files, 1)
        names == {rows[k].Library_Name : k \in 1..Len(rows)}
    IN  /\ rename_columns = RenameFields
        /\ rename_df # <<>>
        /\ NaN \notin Range(OriginalIds) \cup Range(RevisedIdList)
        /\ Cardinality(Range(OriginalIds)) = Len(rename_df)
        /\ Cardinality(Range(RevisedIdList)) = Len(rename_df)
        /\ \A i \in 1..Len(smap_files) :
              TypeSamplemapFormat(smap_files[i]) = ""
        /\ \A k \in 1..Len(rows) : TagEnd(rows[k].FASTQ.tag) # 0
        /\ \A n \in names :
              /\ Cardinality(FilesOfSample(smap_files, n)) = 1
              /\ Cardinality(IndexesOfSample(smap_files, n)) = 1
        /\ names = Range(OriginalIds)

\* C19: no sample is classified and no plan is built unless identity-map
\* validation and metadata normalization (schema, cross-batch, index and
\* mapping checks) completed successfully, the planner then working on the
\* mapped table; a --rename file with a duplicated original id fails with
\* the uniqueness error before any plan exists
C19_ValidationBeforePlanning ==
    /\ ~NoPlan =>
          /\ InputsValid
          /\ pc \notin {"rename_populate_df", "parse_samplemaps",
                        "eval_smap_seq_indexes", "eval_compare_sample_ids",
                        "add_rename_ids_to_df", "normalized"}
          /\ \A k \in 1..Len(df_smaps) :
                \E i \in 1..Len(rename_df) :
                    /\ rename_df[i].samplemap_sample_id
                          = df_smaps[k].sample_name
                    /\ rename_df[i].revised_sample_id
                          = df_smaps[k].revised_sample_name
    /\ Cardinality(Range(OriginalIds)) < Len(rename_df) =>
          /\ NoPlan
          /\ pc # "rename_populate_df" =>
                /\ pc = "failed"
                /\ err = "The samplemap_sample_id column values are not unique."

\* plans were built for a table normalized from the input files
C19_Witness ==
    /\ pc = "merged"
    /\ smap_files # <<>>
    /\ copy_cmds # <<>>
    /\ merge_cmds # <<>>

(***************************************************************************)
(* Claims about two runs of the planner                                    *)
(***************************************************************************)
\* C20: two runs of the planner on the same annotated table and the same
\* state of the file system build identical plans: the same step lists per
\* sample and read end (cleanup steps in the same order), the same
\* destination paths and the same order of the samples in the plan maps
C20_PlannerDeterministic ==
    (pc = "merged" /\ prior_plans # <<>>) => Plans = prior_plans[1]

(***************************************************************************)
(* Claims about the reconciler's failures and its throughput tables        *)
(***************************************************************************)
\* C21: when the side file of some record's artifact is missing the
\* reconciler stops with the missing-file error when it reads the side
\* files, and no recount-derived count, throughput table or comparison
\* exists for any sample
C21_FailsClosed ==
    ~AllSideFiles =>
        /\ \A i \in 1..Len(df_merged) :
              "src_end_pair_reads" \notin DOMAIN df_merged[i]
        /\ df_src_seqcov = <<>>
        /\ df_comp = <<>>
        /\ told = <<>>
        /\ pc \in {"populate_gtac_df", "populate_merged_df",
                   "col_src_end_pair_reads", "failed"}
        /\ pc = "failed" => err = "FASTQ counts file not found."

\* the reconciler stopped on a missing side file while other artifacts had
\* theirs
C21_Witness ==
    /\ pc = "failed"
    /\ err = "FASTQ counts file not found."
    /\ counts_files # EmptyMap
    /\ ~AllSideFiles

\* in every row of a throughput table the sample count is R1 + R2
SumsHold(table) ==
    \A i \in 1..Len(table) :
        table[i].sample_read_counts
            = table[i].R1_read_counts + table[i].R2_read_counts

\* C22: in every throughput table, written or loaded, the sample count of
\* every sample is the sum of its R1 and R2 end-pair counts; a table in
\* which they differ is detected ('R1 and R2 read count sum differ froms
\* sample count') and never passed on
C22_SampleCountIsSum ==
    /\ SumsHold(gtac_counts_file)
    /\ SumsHold(df_gtac_counts)
    /\ SumsHold(df_src_seqcov)

(***************************************************************************)
(* Claims about the step lists of the plans                                *)
(***************************************************************************)
\* the source file an entry of a concatenation list stands for
Origin(entry) == [entry EXCEPT !.dir = "fastq_dir"]

\* the step list of one read end of a Consolidate plan is well formed
ConsolidateSteps(sample_name, read_number, steps) ==
    LET rows   == GetReadNum(GetGroup(df_smaps, sample_name), read_number)
        dest   == dest_fq_index[sample_name][EndTag(read_number)]
        cat    == CatSrc(steps)
        Plain(entry) == fs[Origin(entry)] = "plain"
        copies == SelectSeq(cat, Plain)
        m      == Len(copies)
        rms    == SubSeq(steps, 2 * m + 4, Len(steps))
    IN  /\ Len(cat) = Len(rows)
        /\ \A r \in Range(rows) :
              Cardinality({j \in 1..Len(cat) : Origin(cat[j]) = r.fastq_path})
                  = Cardinality({j \in 1..Len(rows) : rows[j] = r})
        /\ Ascending(cat)
        /\ \A j \in 1..Len(cat) :
              cat[j] = IF Plain(cat[j])
                       THEN [Origin(cat[j]) EXCEPT !.dir = sample_name]
                       ELSE Origin(cat[j])
        /\ Len(steps) >= 2 * m + 3
        /\ \A j \in 1..m :
              /\ steps[2 * j - 1]
                    = Cmd("cp", <<Stem(Origin(copies[j]))>>, Stem(copies[j]))
              /\ steps[2 * j] = Cmd("gzip", <<Stem(copies[j])>>, copies[j])
        /\ steps[2 * m + 1] = Cmd("cat", cat, dest)
        /\ steps[2 * m + 2] = Cmd("md5sum", <<dest>>, dest)
        /\ steps[2 * m + 3] = Cmd("count", <<dest>>, dest)
        /\ \A j \in 1..Len(rms) : rms[j].op = "rm"
        /\ {rms[j].dst : j \in 1..Len(rms)} = Range(copies)
        /\ Len(rms) = Cardinality(Range(copies))

\* C23: the step list of a read end of a Consolidate plan is a (copy,
\* compress) pair for each source found decompressed, in sorted source
\* order; then one concatenate with one entry per source in ascending
\* (flow_cell_id, lane_number) order, the source when it is compressed and
\* its temporary compressed copy when not; then the checksum; then the
\* recount; then one cleanup step per temporary copy
C23_ConsolidateStepOrder ==
    \A k \in 1..Len(merge_cmds) :
        /\ ConsolidateSteps(merge_cmds[k].sample_name, 1, merge_cmds[k].r1)
        /\ ConsolidateSteps(merge_cmds[k].sample_name, 2, merge_cmds[k].r2)

\* a plan concatenates a compressed source of the first flow cell with the
\* temporary copy of a decompressed source of the second, and cleans up
C23_Witness ==
    \E k \in 1..Len(merge_cmds) :
        LET cat == CatSrc(merge_cmds[k].r1)
        IN  /\ Len(cat) = 2
            /\ cat[1].fc = FlowCells[1] /\ cat[1].dir = "fastq_dir"
            /\ cat[2].fc = FlowCells[2] /\ cat[2].dir = SampleOrder[1]
            /\ Len(merge_cmds[k].r1) = 6

\* the operations of a step list, in order
Ops(steps) == [j \in 1..Len(steps) |-> steps[j].op]

\* the step list of one read end of a Passthrough plan is well formed
PassthroughSteps(sample_name, read_number, steps) ==
    LET rows == GetReadNum(GetGroup(df_smaps, sample_name), read_number)
        src  == rows[1].fastq_path
        dest == [dir  |-> sample_name,
                 name |-> rows[1].revised_sample_name,
                 fc   |-> "", lane |-> 0,
                 end  |-> EndTag(read_number), gz |-> TRUE]
    IN  /\ Len(rows) = 1
        /\ dest_fq_index[sample_name][EndTag(read_number)] = dest
        /\ IF fs[src] = "gz"
           THEN /\ Ops(steps) = <<"cp", "md5sum", "count">>
                /\ steps[1].src = <<src>>
                /\ steps[1].dst = dest
           ELSE /\ Ops(steps) = <<"cp", "gzip", "md5sum", "count">>
                /\ steps[1].src = <<Stem(src)>>
                /\ steps[2].src = <<steps[1].dst>>
                /\ steps[2].dst = dest
        /\ steps[Len(steps) - 1].src = <<dest>>
        /\ steps[Len(steps) - 1].dst = dest
        /\ steps[Len(steps)].src = <<dest>>
        /\ steps[Len(steps)].dst = dest

\* C24: the step list of a read end of a Passthrough plan is copy, checksum,
\* recount when the source is a compressed stream and copy, compress,
\* checksum, recount when not; the final artifact, the checksum target and
\* the recount target are the path
\* <outdir>/<original id>/<revised id>.<R1|R2>.fastq.gz, the one the
\* destination index records
C24_PassthroughSteps ==
    \A k \in 1..Len(copy_cmds) :
        /\ PassthroughSteps(copy_cmds[k].sample_name, 1, copy_cmds[k].r1)
        /\ PassthroughSteps(copy_cmds[k].sample_name, 2, copy_cmds[k].r2)

\* a Passthrough plan was built for a sample whose sources are decompressed
C24_Witness ==
    /\ pc = "merged"
    /\ \E k \in 1..Len(copy_cmds) :
          /\ Len(copy_cmds[k].r1) = 4
          /\ Len(copy_cmds[k].r2) = 4

\* the recount of the artifact of a read end of the sample of a row
Recount(row, end) ==
    counts_files[DestFq(row.sample_name, row.revised_sample_name, end)]

\* every artifact has its side file and the two artifacts of every sample
\* hold the same number of reads
RecountsPaired ==
    /\ AllSideFiles
    /\ \A i \in 1..Len(merged_samplemap_file) :
          LET row == merged_samplemap_file[i]
          IN  /\ DestFq(row.sample_name, row.revised_sample_name, "R1")
                    \in DOMAIN counts_files
              /\ DestFq(row.sample_name, row.revised_sample_name, "R2")
                    \in DOMAIN counts_files
              /\ Recount(row, "R1") = Recount(row, "R2")

\* C25: for a sample with any number n >= 1 of source records per read end
\* the reconciler computes src_sample_reads without error, as the recount of
\* the R1 artifact plus the recount of the R2 artifact
C25_SampleRecountDefined ==
    (/\ RecountsPaired
     /\ pc \notin {"populate_gtac_df", "populate_merged_df",
                   "col_src_end_pair_reads", "col_src_sample_reads"})
    => /\ err # "Odd length of reads pairs."
       /\ Len(df_merged) = Len(merged_samplemap_file)
       /\ \A i \in 1..Len(df_merged) :
             /\ "src_sample_reads" \in DOMAIN df_merged[i]
             /\ df_merged[i].src_sample_reads
                   = Recount(df_merged[i], "R1") + Recount(df_merged[i], "R2")

\* C26: after any calls of prepare_lsf_cmds and launch_lsf_jobs on one
\* MergeFastq object the job list holds exactly one job per sample, numbered
\* 1..N, each job's commands being that sample's R1 steps followed by its R2
\* steps; a second prepare_lsf_cmds adds no duplicate job.
C26_OneJobPerSample ==
    (Constructed /\ all_jobs # <<>>) =>
        /\ Len(all_jobs) = Cardinality(SampleGroups(df_smaps))
        /\ \A i \in 1..Len(all_jobs) :
              /\ all_jobs[i].job_name = i
              /\ \E sample_name \in SampleGroups(df_smaps) :
                    LET cmds == IF sample_name \in CmdKeys(copy_cmds)
                                THEN CmdsOf(copy_cmds, sample_name)
                                ELSE CmdsOf(merge_cmds, sample_name)
                    IN  all_jobs[i].command = cmds.r1 \o cmds.r2
        /\ \A i, j \in 1..Len(all_jobs) :
              all_jobs[i].command = all_jobs[j].command => i = j

\* the constructor raised while building the plans
PlanFailed ==
    /\ pc = "failed"
    /\ err # "The outdir directory already exists."

\* C27: plan construction is all-or-nothing: once building the plan of any
\* sample has raised, no job of any sample is prepared or handed to the
\* executor and no output directory is made.
C27_NoJobsAfterPlanError ==
    PlanFailed =>
        /\ all_jobs = <<>>
        /\ launched = <<>>
        /\ dirs \subseteq {"outdir"}

\* a source file of the second sample is missing, found after the first
\* sample's plan was built
C27_Witness ==
    /\ PlanFailed
    /\ err = "FASTQ R1 comp or decomp file not found."
    /\ copy_cmds \o merge_cmds # <<>>
    /\ all_jobs = <<>>
    /\ launched = <<>>
    /\ dirs = {}

DefensiveErrors ==
    {"Copy type should only have 2 associated FASTQ files.",
     "R1 and R2 index sequences do not match.",
     "R1 and R2 flow cell ids do not match.",
     "Merge-samples should all have the same index sequence.",
     "Merge-samples revised names must be unique.",
     "Sample name should not be duplicated in FASTQ index.",
     "Sample name missing in copy commands keys.",
     "Sample name not in the destination FASTQ index."}

Partition(df, Key(_)) ==
    {{j \in 1..Len(df) : Key(df[j]) = Key(df[i])} : i \in 1..Len(df)}

\* C30: after identity mapping succeeds two records share their original
\* sample name exactly when they share their revised sample name, so the
\* planner's grouping by sample_name and the reconciler's grouping by
\* revised_sample_name split the records into the same groups, equally many.
C30_SameGrouping ==
    pc = "normalized" =>
        /\ \A i, j \in 1..Len(df_smaps) :
              (df_smaps[i].sample_name = df_smaps[j].sample_name)
                  <=> (df_smaps[i].revised_sample_name
                          = df_smaps[j].revised_sample_name)
        /\ Partition(df_smaps, LAMBDA r : r.sample_name)
              = Partition(df_smaps, LAMBDA r : r.revised_sample_name)
        /\ Cardinality(SampleGroups(df_smaps))
              = Cardinality(RevisedGroups(df_smaps))

\* a table of two samples, one of them with several records, was mapped
C30_Witness ==
    /\ pc = "normalized"
    /\ Cardinality(SampleGroups(df_smaps)) = 2
    /\ Cardinality(RevisedGroups(df_smaps)) = 2
    /\ Len(df_smaps) >= 3

=============================================================================
